---- MODULE Spec2Model ----
(***************************************************************************)
(* Model of the metrics lifecycle singleton of otel-metrics-wrapper-go    *)
(* (initialization.go): InitMetrics, ShutdownMetrics and GetMeter called   *)
(* by concurrent goroutines over the package-level state meterProvider,    *)
(* shutdownFunc, initOnce, shutdownOnce, initialized and mu.               *)
(***************************************************************************)
EXTENDS Integers, Sequences, FiniteSets, TLC

\* ------------------------------------------------------------------------
\* Bounds
\* ------------------------------------------------------------------------
NumProcs == 2

\* cap on the executions of the initOnce body that are explored
MaxInitRuns == 3

\* calls of recording methods begun in one behaviour
MaxCalls == 4

Procs == 1..NumProcs

NoProc == 0

\* ------------------------------------------------------------------------
\* Configurations (type Config, initialization.go:24-41)
\* ------------------------------------------------------------------------
Config(endpoint, insecure, caFile, interval, service, env, views) ==
    [OTLPEndpoint |-> endpoint, OTLPInsecure |-> insecure, OTLPCAFile |-> caFile,
     PushInterval |-> interval, ServiceName |-> service, Environment |-> env,
     CustomHistogramViews |-> views]

InstrumentViewConfig(name, buckets) ==
    [InstrumentName |-> name, Buckets |-> buckets]

\* The configurations the callers of the lifecycle model pass to InitMetrics:
\* two valid ones (insecure; secure with a CA file that does not load, as in
\* TestInitMetrics_SecureInvalidCA) and three that validation rejects.
CfgInsecure ==
    Config("localhost:4317", TRUE, "", 10, "test-service", "test",
           << InstrumentViewConfig("test.histogram", <<1, 2, 3>>) >>)

CfgSecureBadCA ==
    Config("localhost:4317", FALSE, "nonexistent-ca.pem", 10, "test-service", "test", << >>)

CfgNoEndpoint ==
    Config("", TRUE, "", 10, "test-service", "test", << >>)

CfgZeroInterval ==
    Config("localhost:4317", TRUE, "", 0, "test-service", "test", << >>)

CfgOneBucket ==
    Config("localhost:4317", TRUE, "", 10, "test-service", "test",
           << InstrumentViewConfig("test-service", <<1>>) >>)

InitConfigs == {CfgInsecure, CfgSecureBadCA, CfgNoEndpoint, CfgZeroInterval, CfgOneBucket}

\* validateConfig's loop over cfg.CustomHistogramViews: the error of the first
\* malformed view, "nil" if there is none.
RECURSIVE validateViews(_)
validateViews(views) ==
    IF views = << >> THEN "nil"
    ELSE IF Head(views).InstrumentName = "" THEN "empty_instrument_name"
    ELSE IF Len(Head(views).Buckets) = 0 \/ Len(Head(views).Buckets) < 2 THEN "less_than_2_buckets"
    ELSE validateViews(Tail(views))

\* mutant of validateConfig: only a negative push interval is refused
validateConfigNegativeInterval(cfg) ==
    IF cfg.OTLPEndpoint = "" THEN "endpoint_required"
    ELSE IF cfg.ServiceName = "" THEN "service_name_required"
    ELSE IF cfg.Environment = "" THEN "environment_required"
    ELSE IF cfg.PushInterval < 0 THEN "push_interval_not_positive"
    ELSE IF ~cfg.OTLPInsecure /\ cfg.OTLPCAFile = "" THEN "ca_file_required"
    ELSE validateViews(cfg.CustomHistogramViews)

\* validateConfig: "nil" or the first failing check's error.
validateConfig(cfg) ==
    IF cfg.OTLPEndpoint = "" THEN "endpoint_required"
    ELSE IF cfg.ServiceName = "" THEN "service_name_required"
    ELSE IF cfg.Environment = "" THEN "environment_required"
    ELSE IF cfg.PushInterval <= 0 THEN "push_interval_not_positive"
    ELSE IF ~cfg.OTLPInsecure /\ cfg.OTLPCAFile = "" THEN "ca_file_required"
    ELSE validateViews(cfg.CustomHistogramViews)

\* credentials.NewClientTLSFromFile succeeds only for a CA file that exists.
CAFileLoads(caFile) == caFile = "ca.pem"

\* createOTLPExporter: grpcOk is the outcome of otlpmetricgrpc.New.
createOTLPExporter(cfg, grpcOk) ==
    IF cfg.OTLPInsecure
    THEN (IF grpcOk THEN "ok" ELSE "exporter_error")
    ELSE IF ~CAFileLoads(cfg.OTLPCAFile) THEN "exporter_error"
    ELSE (IF grpcOk THEN "ok" ELSE "exporter_error")

\* ------------------------------------------------------------------------
\* State
\* ------------------------------------------------------------------------
VARIABLES
    meterProvider,   \* package var meterProvider: "nil" or "mp"
    shutdownFunc,    \* package var shutdownFunc: "nil" or "set"
    initOnce,        \* sync.Once: "pending", "running", "done"
    shutdownOnce,    \* sync.Once: "pending", "running", "done"
    initialized,     \* package var initialized
    muWriter,        \* mu: the goroutine holding the write lock, NoProc if none
    muReaders,       \* mu: the goroutines holding a read lock
    globalProvider,  \* otel's process-wide default provider: "default" or "mp"
    skipFlush,       \* os.Getenv("METRICS_SKIP_FLUSH") == "1"
    pc,              \* position of each goroutine
    op,              \* the call each goroutine is in or made last
    cfg,             \* cfg argument of the goroutine's InitMetrics call (kept after a rejection)
    localErr,        \* the call's local initErr / err
    ret,             \* what the goroutine's last completed call returned
    sdQual,          \* the goroutine's ShutdownMetrics call began after a successful init, bypass never on
    sdAt,            \* initialized and the skip switch as the goroutine's running ShutdownMetrics call began
    meter,           \* per instrument: the units added (counter) or the samples recorded (histogram)
    inFlight,        \* HTTPMetrics.inFlight, the tally behind requests.in_flight
    gauge,           \* the value the in-flight callback reported last
    frame,           \* per goroutine: the recording method it is in, the statement reached, its arguments
    calls,           \* history: per recording method, the calls that have returned
    failures,        \* history: per recording method, the returned calls that were passed an error
    classifyArg,     \* the err a caller passes to classifyError
    errorType,       \* what classifyError returned for it
    meterErrors,     \* the creation steps at which the meter returns an error
    sampled,         \* the callbacks the latest collection cycle of the meter ran
    attempted,       \* history: the creation steps asked of the meter, in order
    created,         \* the instruments and callbacks registered on the meter, in order
    ctor,            \* the group constructor running: its group, next step, handles set, return values
    am,              \* NewMetrics local am: per group a nil pointer or the group
    newMetrics,      \* the NewMetrics call: the group it is at, its return values
    ncArgs,          \* NewConfig arguments: endpoint, serviceName, environment, opts
    ncRet,           \* NewConfig result: whether it returned, and the Config
    elapsedMs,       \* milliseconds since rm.startTime (time.Since(rm.startTime))
    collected,       \* the observations of the latest collection cycle, in order
    collectedAt,     \* elapsedMs at the latest collection cycle, -1 before the first
    initBodyRuns,    \* executions of the initOnce body
    flushCalls,      \* invocations of shutdownFunc (mp.Shutdown)
    initSets,        \* writes initialized = true
    initClears,      \* writes initialized = false
    initFailures,    \* executions of the initOnce body that ended with an error
    shutdownSucceeded, \* some ShutdownMetrics call has returned nil
    everSkip         \* the skip-flush switch was on at some time

vars == << meterProvider, shutdownFunc, initOnce, shutdownOnce, initialized,
           muWriter, muReaders, globalProvider, skipFlush, pc, op, cfg,
           localErr, ret, sdQual, sdAt, initBodyRuns, flushCalls, initSets,
           initClears, initFailures, shutdownSucceeded, everSkip,
           meter, inFlight, gauge, frame, calls, failures, classifyArg, errorType,
           meterErrors, sampled, attempted, created, ctor, am, newMetrics,
           ncArgs, ncRet,
           elapsedMs, collected, collectedAt >>

\* everything InitMetrics, ShutdownMetrics and GetMeter work on
lifecycle == << meterProvider, shutdownFunc, initOnce, shutdownOnce, initialized,
                muWriter, muReaders, globalProvider, skipFlush, pc, op, cfg,
                localErr, ret, sdQual, sdAt, initBodyRuns, flushCalls, initSets,
                initClears, initFailures, shutdownSucceeded, everSkip >>

\* everything the recording methods of the instrument groups work on
recording == << meter, inFlight, gauge, frame, calls, failures >>

\* the argument and the result of a classifyError call
classification == << classifyArg, errorType >>

\* the meter and the constructors working on it
construction == << meterErrors, sampled, attempted, created, ctor, am, newMetrics >>

\* the arguments and the result of a NewConfig call
configuring == << ncArgs, ncRet >>

\* the clock and the observations of the runtime group
runtimeGauges == << elapsedMs, collected, collectedAt >>

\* what the lifecycle functions never touch
offLifecycle == << recording, classification, construction, configuring, runtimeGauges >>

\* what the recording methods never touch
offRecording == << lifecycle, classification, construction, configuring, runtimeGauges >>

\* what a classifyError call never touches
offClassification == << lifecycle, recording, construction, configuring, runtimeGauges >>

\* what the steps on construction never touch
offConstruction == << lifecycle, recording, classification, configuring, runtimeGauges >>

\* what the steps on configuring never touch
offConfiguring == << lifecycle, recording, classification, construction, runtimeGauges >>

\* what the steps on runtimeGauges never touch
offRuntimeGauges == << lifecycle, recording, classification, construction, configuring >>

\* the package-level lifecycle state and the process-wide default provider
globals == << meterProvider, shutdownFunc, initOnce, shutdownOnce, initialized, globalProvider >>

mu == << muWriter, muReaders >>

counters == << initBodyRuns, flushCalls, initSets, initClears, initFailures >>

NoCfg == CfgInsecure

\* sdAt of a goroutine that is not in a ShutdownMetrics call
NoAt == [init |-> FALSE, skip |-> FALSE]

\* the instruments the three groups create on the meter, by wire name
\* (README.md:203-221, db.go:25-33, external.go:26-34)
InstrumentNames ==
    {"requests.total", "requests.errors", "requests.duration", "response.size",
     "db.calls.total", "db.calls.errors", "db.calls.duration",
     "external.calls.total", "external.calls.errors", "external.calls.duration"}

\* the recording methods of the three groups
MethodNames ==
    {"RecordRequestStart", "RecordRequestEnd",
     "RecordDBCall", "FinishDBCall",
     "RecordExternalCall", "FinishExternalCall"}

\* status codes a caller passes to RecordRequestEnd, on both sides of the
\* error threshold of README.md:262
StatusCodes == {200, 399, 400, 500}

\* err arguments a caller passes to FinishDBCall / FinishExternalCall
Errs == {"nil", "err"}

\* a goroutine that is in no recording method
NoFrame == [fn |-> "none", at |-> "idle", statusCode |-> 0, err |-> "nil"]

\* a goroutine inside method fn at statement at
Frame(fn, at, statusCode, err) ==
    [fn |-> fn, at |-> at, statusCode |-> statusCode, err |-> err]

\* pgerrcode.UniqueViolation and pgerrcode.ForeignKeyViolation
UniqueViolation == "23505"
ForeignKeyViolation == "23503"

\* the letters, for strings.ToLower
UpperLetters ==
    << "A", "B", "C", "D", "E", "F", "G", "H", "I", "J", "K", "L", "M",
       "N", "O", "P", "Q", "R", "S", "T", "U", "V", "W", "X", "Y", "Z" >>
LowerLetters ==
    << "a", "b", "c", "d", "e", "f", "g", "h", "i", "j", "k", "l", "m",
       "n", "o", "p", "q", "r", "s", "t", "u", "v", "w", "x", "y", "z" >>

\* strings.ToLower on a string held as the sequence of its characters
ToLower(s) ==
    [i \in 1..Len(s) |->
        IF \E k \in 1..26 : UpperLetters[k] = s[i]
        THEN LowerLetters[CHOOSE k \in 1..26 : UpperLetters[k] = s[i]]
        ELSE s[i]]

\* strings.Contains
Contains(s, substr) ==
    \E i \in 0..(Len(s) - Len(substr)) : SubSeq(s, i + 1, i + Len(substr)) = substr

\* the texts err.Error() returns in the cases explored
Messages ==
    { << >>,
      << "b", "o", "o", "m" >>,
      << "p", "a", "r", "s", "e" >>,
      << "P", "a", "R", "S", "e", " ", "x" >>,
      << "s", "p", "a", "r", "s", "e" >>,
      << "p", "a", "r", "s" >>,
      << "a", " ", "S", "Y", "N", "T", "A", "X" >>,
      << "s", "y", "n", " ", "t", "a", "x" >> }

\* the status codes of the gRPC errors explored, by codes.Code.String()
GrpcCodes == {"DeadlineExceeded", "NotFound", "InvalidArgument", "Internal", "Unavailable"}

\* the SQLSTATE codes of the PostgreSQL errors explored
PgCodes == {UniqueViolation, ForeignKeyViolation, "42601"}

\* the nil error
NilError ==
    [isNil |-> TRUE, canceled |-> FALSE, deadline |-> FALSE, net |-> "none",
     msg |-> << >>, pg |-> "none", grpc |-> "none"]

\* the non-nil errors explored. An error is described by what the checks of
\* classifyError find in it and its wrap chain: context.Canceled,
\* context.DeadlineExceeded, a net.Error (with its Timeout() answer), its
\* text, a *pgconn.PgError (with its Code), a gRPC status (with its Code)
NonNilErrors ==
    [isNil : {FALSE}, canceled : BOOLEAN, deadline : BOOLEAN,
     net : {"none", "timeout", "other"}, msg : Messages,
     pg : PgCodes \cup {"none"}, grpc : GrpcCodes \cup {"none"}]

\* the package-level variables before any call (initialization.go:44-51)
InitLifecycle ==
    /\ meterProvider = "nil"
    /\ shutdownFunc = "nil"
    /\ initOnce = "pending"
    /\ shutdownOnce = "pending"
    /\ initialized = FALSE
    /\ muWriter = NoProc
    /\ muReaders = {}
    /\ globalProvider = "default"
    /\ skipFlush \in BOOLEAN
    /\ pc = [p \in Procs |-> "idle"]
    /\ op = [p \in Procs |-> "none"]
    /\ cfg = [p \in Procs |-> NoCfg]
    /\ localErr = [p \in Procs |-> "nil"]
    /\ ret = [p \in Procs |-> "none"]
    /\ sdQual = [p \in Procs |-> FALSE]
    /\ sdAt = [p \in Procs |-> NoAt]
    /\ initBodyRuns = 0
    /\ flushCalls = 0
    /\ initSets = 0
    /\ initClears = 0
    /\ initFailures = 0
    /\ shutdownSucceeded = FALSE
    /\ everSkip = skipFlush

\* fresh instruments and an in-flight tally of 0 (README.md:199-238)
InitRecording ==
    /\ meter = [name \in InstrumentNames |-> 0]
    /\ inFlight = 0
    /\ gauge = 0
    /\ frame = [p \in Procs |-> NoFrame]
    /\ calls = [fn \in MethodNames |-> 0]
    /\ failures = [fn \in MethodNames |-> 0]

\* no classifyError call has been made
InitClassification ==
    /\ classifyArg = NilError
    /\ errorType = "unset"

\* the creation steps of each group constructor, in the order of its code
\* (README.md:203-235, db.go:25-33, external.go:26-34, unnamed/part_000:32-67)
GroupSteps ==
    [HTTP |-> << "requests.total", "requests.errors", "requests.duration",
                 "response.size", "requests.in_flight",
                 "RegisterCallback(requests.in_flight)" >>,
     DB |-> << "db.calls.total", "db.calls.errors", "db.calls.duration" >>,
     External |-> << "external.calls.total", "external.calls.errors",
                     "external.calls.duration" >>,
     Runtime |-> << "go.goroutines", "go.mem.heap_alloc", "process.uptime",
                    "RegisterCallback(go.goroutines, go.mem.heap_alloc, process.uptime)" >>]

\* the order in which NewMetrics calls the group constructors (db.go:108-130)
GroupOrder == << "HTTP", "DB", "External", "Runtime" >>

\* every creation step of NewMetrics, in order
AllSteps ==
    GroupSteps["HTTP"] \o GroupSteps["DB"] \o GroupSteps["External"] \o GroupSteps["Runtime"]

\* the elements of a sequence
Range(seq) == {seq[i] : i \in 1..Len(seq)}

\* a nil group pointer, and a group with the handles set so far
NilGroup == [isNil |-> TRUE, handles |-> {}]
Group(handles) == [isNil |-> FALSE, handles |-> handles]

\* no group constructor is running
NoCtor == [group |-> "none", at |-> 0, handles |-> {}, returned |-> FALSE,
           value |-> NilGroup, err |-> "nil"]

\* NewMetrics has not been called
NoNewMetrics == [at |-> 0, returned |-> FALSE, metrics |-> "nil", err |-> "nil"]

\* a meter that never fails, nothing constructed
InitConstruction ==
    /\ meterErrors = {}
    /\ attempted = << >>
    /\ created = << >>
    /\ sampled = {}
    /\ ctor = NoCtor
    /\ am = [g \in Range(GroupOrder) |-> NilGroup]
    /\ newMetrics = NoNewMetrics

\* no NewConfig call
InitConfiguring ==
    /\ ncArgs = [endpoint |-> "", serviceName |-> "", environment |-> "", opts |-> << >>]
    /\ ncRet = [done |-> FALSE, cfg |-> NoCfg]

\* NewRuntimeMetrics has just returned: startTime is now, no cycle yet
InitRuntimeGauges ==
    /\ elapsedMs = 0
    /\ collected = << >>
    /\ collectedAt = -1

Init ==
    /\ InitLifecycle
    /\ InitRecording
    /\ InitClassification
    /\ InitConstruction
    /\ InitConfiguring
    /\ InitRuntimeGauges

\* sync.RWMutex: a goroutine at one of the two mu.Lock calls (lines 135 and
\* 229) has called Lock and waits for the lock; a blocked Lock call keeps
\* new readers from acquiring it.
LockPending == \E q \in Procs : pc[q] \in {"init_lock", "sd_lock"}

\* A Once that only excludes concurrent executions and lets a later caller
\* run the function again.
OnceMayRunAgain(once) == once # "running"

\* sync.Once.Do runs its function only while the Once has not fired.
OnceMayRun(once) == once = "pending"

\* construction completed and the initOnce body has returned
InitSucceeded == initOnce = "done" /\ meterProvider # "nil"

\* the construction in the initOnce body has failed
InitBodyFailed == initFailures >= 1

Goto(p, label) == pc' = [pc EXCEPT ![p] = label]

\* the call returns value; its local error variable goes out of scope
Return(p, value) ==
    /\ pc' = [pc EXCEPT ![p] = "idle"]
    /\ ret' = [ret EXCEPT ![p] = value]
    /\ localErr' = [localErr EXCEPT ![p] = "nil"]

\* ------------------------------------------------------------------------
\* InitMetrics (initialization.go:82-142)
\* ------------------------------------------------------------------------

\* InitMetricsCall with the validation moved behind the one-shot guard: once
\* the guard has fired the configuration is no longer looked at.
InitMetricsCallValidatesInsideOnce(p) ==
    /\ pc[p] = "idle"
    /\ \E c \in InitConfigs :
         /\ op' = [op EXCEPT ![p] = "init"]
         /\ sdQual' = [sdQual EXCEPT ![p] = FALSE]
         /\ sdAt' = [sdAt EXCEPT ![p] = NoAt]
         /\ UNCHANGED offLifecycle
         /\ IF initOnce = "done" THEN Return(p, "nil")
            ELSE IF validateConfig(c) # "nil" THEN Return(p, "config_error")
            ELSE /\ Goto(p, "init_do")
                 /\ ret' = [ret EXCEPT ![p] = "none"]
                 /\ localErr' = [localErr EXCEPT ![p] = "nil"]
         /\ cfg' = [cfg EXCEPT ![p] = c]
    /\ UNCHANGED << globals, mu, skipFlush, counters, shutdownSucceeded, everSkip >>

\* lines 82-87: the call validates its configuration before anything else; an
\* invalid one returns the configuration error, a valid one goes on to
\* initOnce.Do with a fresh local initErr.
InitMetricsCallWith(p, c) ==
    /\ pc[p] = "idle"
    /\ op' = [op EXCEPT ![p] = "init"]
    /\ sdQual' = [sdQual EXCEPT ![p] = FALSE]
    /\ sdAt' = [sdAt EXCEPT ![p] = NoAt]
    /\ UNCHANGED offLifecycle
    /\ IF validateConfig(c) # "nil"
       THEN Return(p, "config_error")
       ELSE /\ Goto(p, "init_do")
            /\ ret' = [ret EXCEPT ![p] = "none"]
            /\ localErr' = [localErr EXCEPT ![p] = "nil"]
    /\ cfg' = [cfg EXCEPT ![p] = c]
    /\ UNCHANGED << globals, mu, skipFlush, counters, shutdownSucceeded, everSkip >>

\* InitMetrics called with one of the configurations of the lifecycle model
InitMetricsCall(p) == \E c \in InitConfigs : InitMetricsCallWith(p, c)

\* mutant of InitOnceDo: a caller that finds the body running does not wait
\* for it and returns at once
InitOnceDoDoesNotWait(p) ==
    /\ pc[p] = "init_do"
    /\ \/ /\ OnceMayRun(initOnce)
          /\ initBodyRuns < MaxInitRuns
          /\ initOnce' = "running"
          /\ initBodyRuns' = initBodyRuns + 1
          /\ Goto(p, "init_exporter")
          /\ UNCHANGED << ret, cfg, localErr >>
       \/ /\ ~OnceMayRun(initOnce)
          /\ Return(p, localErr[p])
          /\ cfg' = [cfg EXCEPT ![p] = NoCfg]
          /\ UNCHANGED << initOnce, initBodyRuns >>
    /\ UNCHANGED << meterProvider, shutdownFunc, shutdownOnce, initialized, globalProvider,
                    mu, skipFlush, op, sdQual, sdAt, offLifecycle, flushCalls, initSets, initClears, initFailures,
                    shutdownSucceeded, everSkip >>

\* line 88: initOnce.Do. The first caller runs the body; a caller that finds
\* the body running waits; a caller that finds the Once fired skips the body
\* and returns its own initErr (line 141), which nothing has written.
InitOnceDo(p) ==
    /\ pc[p] = "init_do"
    /\ \/ /\ OnceMayRun(initOnce)
          /\ initBodyRuns < MaxInitRuns
          /\ initOnce' = "running"
          /\ initBodyRuns' = initBodyRuns + 1
          /\ Goto(p, "init_exporter")
          /\ UNCHANGED << ret, cfg, localErr >>
       \/ /\ ~OnceMayRun(initOnce)
          /\ initOnce = "done"
          /\ Return(p, localErr[p])
          /\ cfg' = [cfg EXCEPT ![p] = NoCfg]
          /\ UNCHANGED << initOnce, initBodyRuns >>
    /\ UNCHANGED << meterProvider, shutdownFunc, shutdownOnce, initialized, globalProvider,
                    mu, skipFlush, op, sdQual, sdAt, offLifecycle, flushCalls, initSets, initClears, initFailures,
                    shutdownSucceeded, everSkip >>

\* InitCreateExporter with the provider installed as the process-wide default
\* before the exporter's error is looked at.
InitCreateExporterInstallsFirst(p) ==
    /\ pc[p] = "init_exporter"
    /\ globalProvider' = "mp"
    /\ \E grpcOk \in BOOLEAN :
         IF createOTLPExporter(cfg[p], grpcOk) = "ok"
         THEN /\ Goto(p, "init_resource")
              /\ UNCHANGED << localErr, initFailures >>
         ELSE /\ localErr' = [localErr EXCEPT ![p] = "exporter_error"]
              /\ initFailures' = initFailures + 1
              /\ Goto(p, "init_return")
    /\ UNCHANGED << meterProvider, shutdownFunc, initOnce, shutdownOnce, initialized,
                    mu, skipFlush, op, cfg, ret, sdQual, sdAt, offLifecycle, initBodyRuns, flushCalls, initSets, initClears,
                    shutdownSucceeded, everSkip >>

\* lines 90-94: createOTLPExporter; on failure initErr is set and the body returns.
InitCreateExporter(p) ==
    /\ pc[p] = "init_exporter"
    /\ \E grpcOk \in BOOLEAN :
         IF createOTLPExporter(cfg[p], grpcOk) = "ok"
         THEN /\ Goto(p, "init_resource")
              /\ UNCHANGED << localErr, initFailures >>
         ELSE /\ localErr' = [localErr EXCEPT ![p] = "exporter_error"]
              /\ initFailures' = initFailures + 1
              /\ Goto(p, "init_return")
    /\ UNCHANGED << globals, mu, skipFlush, op, cfg, ret, sdQual, sdAt, offLifecycle, initBodyRuns, flushCalls, initSets, initClears,
                    shutdownSucceeded, everSkip >>

\* lines 97-108: resource.New; on failure initErr is set and the body returns.
InitCreateResource(p) ==
    /\ pc[p] = "init_resource"
    /\ \E resourceOk \in BOOLEAN :
         IF resourceOk
         THEN /\ Goto(p, "init_provider")
              /\ UNCHANGED << localErr, initFailures >>
         ELSE /\ localErr' = [localErr EXCEPT ![p] = "resource_error"]
              /\ initFailures' = initFailures + 1
              /\ Goto(p, "init_return")
    /\ UNCHANGED << globals, mu, skipFlush, op, cfg, ret, sdQual, sdAt, offLifecycle, initBodyRuns, flushCalls, initSets, initClears,
                    shutdownSucceeded, everSkip >>

\* The body without the store to the package variable (line 125).
InitSetMeterProviderSkipped(p) ==
    /\ pc[p] = "init_provider"
    /\ Goto(p, "init_global")
    /\ UNCHANGED << globals, mu, skipFlush, op, cfg, localErr, ret, sdQual, sdAt, offLifecycle, counters,
                    shutdownSucceeded, everSkip >>

\* lines 110-125: reader, views and provider are built (none of it can fail)
\* and the provider is stored in the package variable.
InitSetMeterProvider(p) ==
    /\ pc[p] = "init_provider"
    /\ meterProvider' = "mp"
    /\ Goto(p, "init_global")
    /\ UNCHANGED << shutdownFunc, initOnce, shutdownOnce, initialized, globalProvider,
                    mu, skipFlush, op, cfg, localErr, ret, sdQual, sdAt, offLifecycle, counters,
                    shutdownSucceeded, everSkip >>

\* line 126: apimetric.SetMeterProvider installs it as the process-wide default.
InitSetGlobalProvider(p) ==
    /\ pc[p] = "init_global"
    /\ globalProvider' = meterProvider
    /\ Goto(p, "init_hook")
    /\ UNCHANGED << meterProvider, shutdownFunc, initOnce, shutdownOnce, initialized,
                    mu, skipFlush, op, cfg, localErr, ret, sdQual, sdAt, offLifecycle, counters,
                    shutdownSucceeded, everSkip >>

\* mutant of InitSetShutdownFunc: the shutdown function is not stored
InitSetShutdownFuncSkipped(p) ==
    /\ pc[p] = "init_hook"
    /\ Goto(p, "init_lock")
    /\ UNCHANGED << globals, mu, skipFlush, op, cfg, localErr, ret, sdQual, sdAt, offLifecycle, counters,
                    shutdownSucceeded, everSkip >>

\* lines 129-132: the shutdown function is stored.
InitSetShutdownFunc(p) ==
    /\ pc[p] = "init_hook"
    /\ shutdownFunc' = "set"
    /\ Goto(p, "init_lock")
    /\ UNCHANGED << meterProvider, initOnce, shutdownOnce, initialized, globalProvider,
                    mu, skipFlush, op, cfg, localErr, ret, sdQual, sdAt, offLifecycle, counters,
                    shutdownSucceeded, everSkip >>

\* line 135: mu.Lock waits until nobody holds the lock.
InitLock(p) ==
    /\ pc[p] = "init_lock"
    /\ muWriter = NoProc
    /\ muReaders = {}
    /\ muWriter' = p
    /\ Goto(p, "init_mark")
    /\ UNCHANGED << globals, muReaders, skipFlush, op, cfg, localErr, ret, sdQual, sdAt, offLifecycle, counters,
                    shutdownSucceeded, everSkip >>

\* line 136: initialized = true.
InitMark(p) ==
    /\ pc[p] = "init_mark"
    /\ initialized' = TRUE
    /\ initSets' = initSets + 1
    /\ Goto(p, "init_unlock")
    /\ UNCHANGED << meterProvider, shutdownFunc, initOnce, shutdownOnce, globalProvider,
                    mu, skipFlush, op, cfg, localErr, ret, sdQual, sdAt, offLifecycle, initBodyRuns, flushCalls,
                    initClears, initFailures, shutdownSucceeded, everSkip >>

\* mutant of InitUnlock: the write lock is not released
InitUnlockKeepsLock(p) ==
    /\ pc[p] = "init_unlock"
    /\ Goto(p, "init_return")
    /\ UNCHANGED << globals, mu, skipFlush, op, cfg, localErr, ret, sdQual, sdAt, offLifecycle, counters,
                    shutdownSucceeded, everSkip >>

\* line 137: mu.Unlock.
InitUnlock(p) ==
    /\ pc[p] = "init_unlock"
    /\ muWriter' = NoProc
    /\ Goto(p, "init_return")
    /\ UNCHANGED << globals, muReaders, skipFlush, op, cfg, localErr, ret, sdQual, sdAt, offLifecycle, counters,
                    shutdownSucceeded, everSkip >>

\* InitReturn with a failed body leaving the one-shot guard unfired, so that
\* a later call retries.
InitReturnAllowsRetry(p) ==
    /\ pc[p] = "init_return"
    /\ initOnce' = (IF localErr[p] = "nil" THEN "done" ELSE "pending")
    /\ Return(p, localErr[p])
    /\ cfg' = [cfg EXCEPT ![p] = NoCfg]
    /\ UNCHANGED << meterProvider, shutdownFunc, shutdownOnce, initialized, globalProvider,
                    mu, skipFlush, op, sdQual, sdAt, offLifecycle, counters, shutdownSucceeded, everSkip >>

\* lines 140-141: the body returns, the Once is marked as fired and the
\* executing caller returns its initErr.
InitReturn(p) ==
    /\ pc[p] = "init_return"
    /\ initOnce' = "done"
    /\ Return(p, localErr[p])
    /\ cfg' = [cfg EXCEPT ![p] = NoCfg]
    /\ UNCHANGED << meterProvider, shutdownFunc, shutdownOnce, initialized, globalProvider,
                    mu, skipFlush, op, sdQual, sdAt, offLifecycle, counters, shutdownSucceeded, everSkip >>

\* ------------------------------------------------------------------------
\* ShutdownMetrics (initialization.go:206-234)
\* ------------------------------------------------------------------------

\* lines 206-207: the call starts with a fresh local err.
ShutdownMetricsCall(p) ==
    /\ pc[p] = "idle"
    /\ op' = [op EXCEPT ![p] = "shutdown"]
    /\ localErr' = [localErr EXCEPT ![p] = "nil"]
    /\ ret' = [ret EXCEPT ![p] = "none"]
    /\ sdQual' = [sdQual EXCEPT ![p] = InitSucceeded /\ ~everSkip]
    /\ sdAt' = [sdAt EXCEPT ![p] = [init |-> initialized, skip |-> skipFlush]]
    /\ UNCHANGED offLifecycle
    /\ Goto(p, "sd_do")
    /\ cfg' = [cfg EXCEPT ![p] = NoCfg]
    /\ UNCHANGED << globals, mu, skipFlush, counters, shutdownSucceeded, everSkip >>

\* line 208: shutdownOnce.Do. The first caller runs the body; a caller that
\* finds the body running waits; a caller that finds the Once fired skips the
\* body and returns its own err (line 233), which nothing has written.
ShutdownOnceDo(p) ==
    /\ pc[p] = "sd_do"
    /\ \/ /\ OnceMayRun(shutdownOnce)
          /\ shutdownOnce' = "running"
          /\ Goto(p, "sd_rlock")
          /\ UNCHANGED << ret, localErr, sdAt, shutdownSucceeded >>
       \/ /\ ~OnceMayRun(shutdownOnce)
          /\ shutdownOnce = "done"
          /\ Return(p, localErr[p])
          /\ sdAt' = [sdAt EXCEPT ![p] = NoAt]
          /\ shutdownSucceeded' = (shutdownSucceeded \/ localErr[p] = "nil")
          /\ UNCHANGED shutdownOnce
    /\ UNCHANGED << meterProvider, shutdownFunc, initOnce, initialized, globalProvider,
                    mu, skipFlush, op, cfg, sdQual, offLifecycle, counters, everSkip >>

\* line 209: mu.RLock waits while a writer holds the lock or waits for it.
ShutdownRLock(p) ==
    /\ pc[p] = "sd_rlock"
    /\ muWriter = NoProc /\ ~LockPending
    /\ muReaders' = muReaders \cup {p}
    /\ Goto(p, "sd_check")
    /\ UNCHANGED << globals, muWriter, skipFlush, op, cfg, localErr, ret, sdQual, sdAt, offLifecycle, counters,
                    shutdownSucceeded, everSkip >>

\* lines 211-215: the flag is read and the read lock released; an
\* uninitialized system makes the body return at once.
ShutdownCheck(p) ==
    /\ pc[p] = "sd_check"
    /\ muReaders' = muReaders \ {p}
    /\ IF ~initialized THEN Goto(p, "sd_return") ELSE Goto(p, "sd_flush")
    /\ UNCHANGED << globals, muWriter, skipFlush, op, cfg, localErr, ret, sdQual, sdAt, offLifecycle, counters,
                    shutdownSucceeded, everSkip >>

\* ShutdownFlush that leaves the body as soon as the shutdown function fails,
\* before the flag is cleared.
ShutdownFlushReturnsOnError(p) ==
    /\ pc[p] = "sd_flush"
    /\ IF skipFlush
       THEN /\ localErr' = [localErr EXCEPT ![p] = "nil"]
            /\ UNCHANGED flushCalls
       ELSE IF shutdownFunc # "nil"
            THEN /\ \E e \in {"nil", "flush_error"} : localErr' = [localErr EXCEPT ![p] = e]
                 /\ flushCalls' = flushCalls + 1
            ELSE UNCHANGED << localErr, flushCalls >>
    /\ IF localErr'[p] = "flush_error" THEN Goto(p, "sd_return") ELSE Goto(p, "sd_lock")
    /\ UNCHANGED << globals, mu, skipFlush, op, cfg, ret, sdQual, sdAt, offLifecycle, initBodyRuns, initSets,
                    initClears, initFailures, shutdownSucceeded, everSkip >>

\* lines 218-226: with the skip switch on nothing is flushed; otherwise the
\* shutdown function, when set, is invoked and its result kept in err.
ShutdownFlush(p) ==
    /\ pc[p] = "sd_flush"
    /\ IF skipFlush
       THEN /\ localErr' = [localErr EXCEPT ![p] = "nil"]
            /\ UNCHANGED flushCalls
       ELSE IF shutdownFunc # "nil"
            THEN /\ \E e \in {"nil", "flush_error"} : localErr' = [localErr EXCEPT ![p] = e]
                 /\ flushCalls' = flushCalls + 1
            ELSE UNCHANGED << localErr, flushCalls >>
    /\ Goto(p, "sd_lock")
    /\ UNCHANGED << globals, mu, skipFlush, op, cfg, ret, sdQual, sdAt, offLifecycle, initBodyRuns, initSets,
                    initClears, initFailures, shutdownSucceeded, everSkip >>

\* line 229: mu.Lock waits until nobody holds the lock.
ShutdownLock(p) ==
    /\ pc[p] = "sd_lock"
    /\ muWriter = NoProc
    /\ muReaders = {}
    /\ muWriter' = p
    /\ Goto(p, "sd_mark")
    /\ UNCHANGED << globals, muReaders, skipFlush, op, cfg, localErr, ret, sdQual, sdAt, offLifecycle, counters,
                    shutdownSucceeded, everSkip >>

\* ShutdownMark that also re-arms initOnce, as the test helper ResetState does.
ShutdownMarkRearmsInit(p) ==
    /\ pc[p] = "sd_mark"
    /\ initialized' = FALSE
    /\ initOnce' = "pending"
    /\ initClears' = initClears + 1
    /\ Goto(p, "sd_unlock")
    /\ UNCHANGED << meterProvider, shutdownFunc, shutdownOnce, globalProvider,
                    mu, skipFlush, op, cfg, localErr, ret, sdQual, sdAt, offLifecycle, initBodyRuns, flushCalls,
                    initSets, initFailures, shutdownSucceeded, everSkip >>

\* line 230: initialized = false.
ShutdownMark(p) ==
    /\ pc[p] = "sd_mark"
    /\ initialized' = FALSE
    /\ initClears' = initClears + 1
    /\ Goto(p, "sd_unlock")
    /\ UNCHANGED << meterProvider, shutdownFunc, initOnce, shutdownOnce, globalProvider,
                    mu, skipFlush, op, cfg, localErr, ret, sdQual, sdAt, offLifecycle, initBodyRuns, flushCalls,
                    initSets, initFailures, shutdownSucceeded, everSkip >>

\* line 231: mu.Unlock.
ShutdownUnlock(p) ==
    /\ pc[p] = "sd_unlock"
    /\ muWriter' = NoProc
    /\ Goto(p, "sd_return")
    /\ UNCHANGED << globals, muReaders, skipFlush, op, cfg, localErr, ret, sdQual, sdAt, offLifecycle, counters,
                    shutdownSucceeded, everSkip >>

\* lines 232-233: the body returns, the Once is marked as fired and the
\* executing caller returns its err.
ShutdownReturn(p) ==
    /\ pc[p] = "sd_return"
    /\ shutdownOnce' = "done"
    /\ Return(p, localErr[p])
    /\ sdAt' = [sdAt EXCEPT ![p] = NoAt]
    /\ shutdownSucceeded' = (shutdownSucceeded \/ localErr[p] = "nil")
    /\ UNCHANGED << meterProvider, shutdownFunc, initOnce, initialized, globalProvider,
                    mu, skipFlush, op, cfg, sdQual, offLifecycle, counters, everSkip >>

\* ------------------------------------------------------------------------
\* GetMeter (initialization.go:237-245)
\* ------------------------------------------------------------------------

GetMeterCall(p) ==
    /\ pc[p] = "idle"
    /\ op' = [op EXCEPT ![p] = "getmeter"]
    /\ localErr' = [localErr EXCEPT ![p] = "nil"]
    /\ ret' = [ret EXCEPT ![p] = "none"]
    /\ sdQual' = [sdQual EXCEPT ![p] = FALSE]
    /\ sdAt' = [sdAt EXCEPT ![p] = NoAt]
    /\ UNCHANGED offLifecycle
    /\ Goto(p, "gm_rlock")
    /\ cfg' = [cfg EXCEPT ![p] = NoCfg]
    /\ UNCHANGED << globals, mu, skipFlush, counters, shutdownSucceeded, everSkip >>

\* line 238: mu.RLock waits while a writer holds the lock or waits for it.
GetMeterRLock(p) ==
    /\ pc[p] = "gm_rlock"
    /\ muWriter = NoProc /\ ~LockPending
    /\ muReaders' = muReaders \cup {p}
    /\ Goto(p, "gm_read")
    /\ UNCHANGED << globals, muWriter, skipFlush, op, cfg, localErr, ret, sdQual, sdAt, offLifecycle, counters,
                    shutdownSucceeded, everSkip >>

\* lines 241-244: the provider the returned meter is drawn from.  The
\* uninitialized branch asks otel for the process-wide default provider,
\* which is whatever SetMeterProvider installed last.
MeterSource ==
    IF ~initialized \/ meterProvider = "nil"
    THEN (IF globalProvider = "mp" THEN "meter_of_built" ELSE "meter_of_default")
    ELSE "meter_of_built"

\* lines 239-244: the meter is returned and the deferred RUnlock runs.
GetMeterRead(p) ==
    /\ pc[p] = "gm_read"
    /\ Return(p, MeterSource)
    /\ muReaders' = muReaders \ {p}
    /\ UNCHANGED << globals, muWriter, skipFlush, op, cfg, sdQual, sdAt, offLifecycle, counters,
                    shutdownSucceeded, everSkip >>

\* ------------------------------------------------------------------------
\* The environment
\* ------------------------------------------------------------------------

\* os.Setenv / os.Unsetenv of METRICS_SKIP_FLUSH (initialization_test.go:46-52).
Setenv ==
    /\ skipFlush' = ~skipFlush
    /\ everSkip' = (everSkip \/ skipFlush')
    /\ UNCHANGED << globals, mu, pc, op, cfg, localErr, ret, sdQual, sdAt, offLifecycle, counters, shutdownSucceeded >>

\* ------------------------------------------------------------------------
\* Specification
\* ------------------------------------------------------------------------
Next ==
    \/ \E p \in Procs : InitMetricsCall(p)
    \/ \E p \in Procs : InitOnceDo(p)
    \/ \E p \in Procs : InitCreateExporter(p)
    \/ \E p \in Procs : InitCreateResource(p)
    \/ \E p \in Procs : InitSetMeterProvider(p)
    \/ \E p \in Procs : InitSetGlobalProvider(p)
    \/ \E p \in Procs : InitSetShutdownFunc(p)
    \/ \E p \in Procs : InitLock(p)
    \/ \E p \in Procs : InitMark(p)
    \/ \E p \in Procs : InitUnlock(p)
    \/ \E p \in Procs : InitReturn(p)
    \/ \E p \in Procs : ShutdownMetricsCall(p)
    \/ \E p \in Procs : ShutdownOnceDo(p)
    \/ \E p \in Procs : ShutdownRLock(p)
    \/ \E p \in Procs : ShutdownCheck(p)
    \/ \E p \in Procs : ShutdownFlush(p)
    \/ \E p \in Procs : ShutdownLock(p)
    \/ \E p \in Procs : ShutdownMark(p)
    \/ \E p \in Procs : ShutdownUnlock(p)
    \/ \E p \in Procs : ShutdownReturn(p)
    \/ \E p \in Procs : GetMeterCall(p)
    \/ \E p \in Procs : GetMeterRLock(p)
    \/ \E p \in Procs : GetMeterRead(p)
    \/ Setenv

Spec == Init /\ [][Next]_vars

\* what goroutine p does next inside a call it has begun
Step(p) ==
    \/ InitOnceDo(p) \/ InitCreateExporter(p) \/ InitCreateResource(p)
    \/ InitSetMeterProvider(p) \/ InitSetGlobalProvider(p) \/ InitSetShutdownFunc(p)
    \/ InitLock(p) \/ InitMark(p) \/ InitUnlock(p) \/ InitReturn(p)
    \/ ShutdownOnceDo(p) \/ ShutdownRLock(p) \/ ShutdownCheck(p) \/ ShutdownFlush(p)
    \/ ShutdownLock(p) \/ ShutdownMark(p) \/ ShutdownUnlock(p) \/ ShutdownReturn(p)
    \/ GetMeterRLock(p) \/ GetMeterRead(p)

\* The Go scheduler runs every goroutine that can run: a step that stays
\* possible is taken. Nothing is asked of the callers: a goroutine need not
\* begin another call.
Fairness == \A p \in Procs : WF_vars(Step(p))

SpecLive == Init /\ [][Next]_vars /\ Fairness

TypeOK ==
    /\ meterProvider \in {"nil", "mp"}
    /\ shutdownFunc \in {"nil", "set"}
    /\ initOnce \in {"pending", "running", "done"}
    /\ shutdownOnce \in {"pending", "running", "done"}
    /\ initialized \in BOOLEAN
    /\ muWriter \in Procs \cup {NoProc}
    /\ muReaders \subseteq Procs
    /\ globalProvider \in {"default", "mp"}
    /\ skipFlush \in BOOLEAN
    /\ \A p \in Procs : cfg[p] \in InitConfigs
    /\ \A p \in Procs : pc[p] \in {"init_do", "init_exporter"} => validateConfig(cfg[p]) = "nil"
    /\ muWriter # NoProc => muReaders = {}
    /\ sdAt \in [Procs -> [init : BOOLEAN, skip : BOOLEAN]]

\* ------------------------------------------------------------------------
\* Instrument groups: HTTPMetrics (http.go, carried in README.md:168-290),
\* DBMetrics (db.go), ExternalMetrics (external.go)
\* ------------------------------------------------------------------------

\* the groups are built on a meter of a process in its initial lifecycle state
InitRecord == Init /\ ~skipFlush

RECURSIVE SumOver(_, _)
SumOver(f, S) ==
    IF S = {} THEN 0
    ELSE LET x == CHOOSE y \in S : TRUE IN f[x] + SumOver(f, S \ {x})

\* calls begun so far: those completed plus those in progress
CallsBegun ==
    SumOver(calls, MethodNames) + Cardinality({p \in Procs : frame[p].at # "idle"})

\* counter.Add(ctx, 1, ...) and histogram.Record(ctx, v, ...) on instrument
\* name: one more unit, respectively one more sample
Add(name) == meter' = [meter EXCEPT ![name] = @ + 1]

\* the method returns: the frame is dropped and the call counted, among the
\* failing ones too when the caller passed it an error (a status code of 400
\* or more, a non-nil err)
Done(p, fn, failing) ==
    /\ frame' = [frame EXCEPT ![p] = NoFrame]
    /\ calls' = [calls EXCEPT ![fn] = @ + 1]
    /\ failures' = [failures EXCEPT ![fn] = IF failing THEN @ + 1 ELSE @]

\* a caller may begin a method when it is idle and the call budget allows
MayCall(p) == frame[p].at = "idle" /\ CallsBegun < MaxCalls

\* mutant of RecordRequestStart: the in-flight tally is raised before the
\* request is added to requests.total
RecordRequestStartTallyFirst(p) ==
    /\ MayCall(p)
    /\ inFlight' = inFlight + 1
    /\ frame' = [frame EXCEPT ![p] = Frame("RecordRequestStart", "inflight", 0, "nil")]
    /\ UNCHANGED << offRecording, meter, gauge, calls, failures >>

\* README.md:241-247: RequestsTotal.Add(ctx, 1, ...)
RecordRequestStart(p) ==
    /\ MayCall(p)
    /\ Add("requests.total")
    /\ frame' = [frame EXCEPT ![p] = Frame("RecordRequestStart", "inflight", 0, "nil")]
    /\ UNCHANGED << offRecording, inFlight, gauge, calls, failures >>

\* RecordRequestStartInFlight that never touches the in-flight tally.
RecordRequestStartInFlightForgets(p) ==
    /\ frame[p].fn = "RecordRequestStart" /\ frame[p].at = "inflight"
    /\ Done(p, "RecordRequestStart", FALSE)
    /\ UNCHANGED << offRecording, inFlight, meter, gauge >>

\* README.md:248: atomic.AddInt64(&hm.inFlight, 1), then the method returns
RecordRequestStartInFlight(p) ==
    /\ frame[p].fn = "RecordRequestStart" /\ frame[p].at = "inflight"
    /\ inFlight' = inFlight + 1
    /\ Done(p, "RecordRequestStart", FALSE)
    /\ UNCHANGED << offRecording, meter, gauge >>

\* README.md:252-259: the call begins with atomic.AddInt64(&hm.inFlight, -1)
RecordRequestEnd(p) ==
    /\ MayCall(p)
    /\ \E statusCode \in StatusCodes :
          frame' = [frame EXCEPT ![p] = Frame("RecordRequestEnd", "errors", statusCode, "nil")]
    /\ inFlight' = inFlight - 1
    /\ UNCHANGED << offRecording, meter, gauge, calls, failures >>

\* RecordRequestEndErrors with the threshold one too high.
RecordRequestEndErrorsAbove400(p) ==
    /\ frame[p].fn = "RecordRequestEnd" /\ frame[p].at = "errors"
    /\ IF frame[p].statusCode > 400
       THEN Add("requests.errors")
       ELSE UNCHANGED meter
    /\ frame' = [frame EXCEPT ![p].at = "duration"]
    /\ UNCHANGED << offRecording, inFlight, gauge, calls, failures >>

\* README.md:262-270: if statusCode >= 400 { RequestsErrors.Add(ctx, 1, ...) }
RecordRequestEndErrors(p) ==
    /\ frame[p].fn = "RecordRequestEnd" /\ frame[p].at = "errors"
    /\ IF frame[p].statusCode >= 400
       THEN Add("requests.errors")
       ELSE UNCHANGED meter
    /\ frame' = [frame EXCEPT ![p].at = "duration"]
    /\ UNCHANGED << offRecording, inFlight, gauge, calls, failures >>

\* README.md:273-280: RequestsDuration.Record(ctx, elapsedMs, ...)
RecordRequestEndDuration(p) ==
    /\ frame[p].fn = "RecordRequestEnd" /\ frame[p].at = "duration"
    /\ Add("requests.duration")
    /\ frame' = [frame EXCEPT ![p].at = "size"]
    /\ UNCHANGED << offRecording, inFlight, gauge, calls, failures >>

\* README.md:283-289: ResponseSize.Record(ctx, size, ...), then the method
\* returns
RecordRequestEndSize(p) ==
    /\ frame[p].fn = "RecordRequestEnd" /\ frame[p].at = "size"
    /\ Add("response.size")
    /\ Done(p, "RecordRequestEnd", frame[p].statusCode >= 400)
    /\ UNCHANGED << offRecording, inFlight, gauge >>

\* README.md:224-235: the registered callback loads the tally atomically and
\* reports it as requests.in_flight
ObserveInFlight ==
    /\ gauge' = inFlight
    /\ UNCHANGED << offRecording, inFlight, meter, frame, calls, failures >>

\* db.go:39-47: RecordDBCall is the single statement CallsTotal.Add(ctx, 1, ...)
RecordDBCall(p) ==
    /\ MayCall(p)
    /\ Add("db.calls.total")
    /\ Done(p, "RecordDBCall", FALSE)
    /\ UNCHANGED << offRecording, inFlight, gauge >>

\* FinishDBCall that counts every call as an error, nil err included.
FinishDBCallCountsNil(p) ==
    /\ MayCall(p)
    /\ \E err \in Errs :
          /\ Add("db.calls.errors")
          /\ frame' = [frame EXCEPT ![p] = Frame("FinishDBCall", "duration", 0, err)]
    /\ UNCHANGED << offRecording, inFlight, gauge, calls, failures >>

\* db.go:50-65: if err != nil { CallsErrors.Add(ctx, 1, ...) }
FinishDBCall(p) ==
    /\ MayCall(p)
    /\ \E err \in Errs :
          /\ IF err # "nil" THEN Add("db.calls.errors") ELSE UNCHANGED meter
          /\ frame' = [frame EXCEPT ![p] = Frame("FinishDBCall", "duration", 0, err)]
    /\ UNCHANGED << offRecording, inFlight, gauge, calls, failures >>

\* db.go:66-74: CallsDuration.Record(ctx, elapsedMs, ...), then the method
\* returns
FinishDBCallDuration(p) ==
    /\ frame[p].fn = "FinishDBCall" /\ frame[p].at = "duration"
    /\ Add("db.calls.duration")
    /\ Done(p, "FinishDBCall", frame[p].err # "nil")
    /\ UNCHANGED << offRecording, inFlight, gauge >>

\* external.go:40-47: RecordExternalCall is the single statement
\* CallsTotal.Add(ctx, 1, ...)
RecordExternalCall(p) ==
    /\ MayCall(p)
    /\ Add("external.calls.total")
    /\ Done(p, "RecordExternalCall", FALSE)
    /\ UNCHANGED << offRecording, inFlight, gauge >>

\* external.go:50-63: if err != nil { CallsErrors.Add(ctx, 1, ...) }
FinishExternalCall(p) ==
    /\ MayCall(p)
    /\ \E err \in Errs :
          /\ IF err # "nil" THEN Add("external.calls.errors") ELSE UNCHANGED meter
          /\ frame' = [frame EXCEPT ![p] = Frame("FinishExternalCall", "latency", 0, err)]
    /\ UNCHANGED << offRecording, inFlight, gauge, calls, failures >>

\* FinishExternalCallLatency that skips the sample of a call that failed.
FinishExternalCallLatencySkipsFailed(p) ==
    /\ frame[p].fn = "FinishExternalCall" /\ frame[p].at = "latency"
    /\ IF frame[p].err = "nil" THEN Add("external.calls.duration") ELSE UNCHANGED meter
    /\ Done(p, "FinishExternalCall", frame[p].err # "nil")
    /\ UNCHANGED << offRecording, inFlight, gauge >>

\* external.go:64-72: CallsLatency.Record(ctx, elapsedMs, ...), then the
\* method returns
FinishExternalCallLatency(p) ==
    /\ frame[p].fn = "FinishExternalCall" /\ frame[p].at = "latency"
    /\ Add("external.calls.duration")
    /\ Done(p, "FinishExternalCall", frame[p].err # "nil")
    /\ UNCHANGED << offRecording, inFlight, gauge >>

\* HTTPMetrics: its two methods called from any goroutine, and the collection
\* cycle that runs the in-flight callback
NextHTTP ==
    \/ \E p \in Procs : RecordRequestStart(p)
    \/ \E p \in Procs : RecordRequestStartInFlight(p)
    \/ \E p \in Procs : RecordRequestEnd(p)
    \/ \E p \in Procs : RecordRequestEndErrors(p)
    \/ \E p \in Procs : RecordRequestEndDuration(p)
    \/ \E p \in Procs : RecordRequestEndSize(p)
    \/ ObserveInFlight

SpecHTTP == InitRecord /\ [][NextHTTP]_vars

\* DBMetrics: its two methods called from any goroutine
NextDB ==
    \/ \E p \in Procs : RecordDBCall(p)
    \/ \E p \in Procs : FinishDBCall(p)
    \/ \E p \in Procs : FinishDBCallDuration(p)

SpecDB == InitRecord /\ [][NextDB]_vars

\* ExternalMetrics: its two methods called from any goroutine
NextExternal ==
    \/ \E p \in Procs : RecordExternalCall(p)
    \/ \E p \in Procs : FinishExternalCall(p)
    \/ \E p \in Procs : FinishExternalCallLatency(p)

SpecExternal == InitRecord /\ [][NextExternal]_vars

TypeOKRecord ==
    /\ meter \in [InstrumentNames -> 0..MaxCalls]
    /\ inFlight \in -MaxCalls..MaxCalls
    /\ gauge \in -MaxCalls..MaxCalls
    /\ calls \in [MethodNames -> 0..MaxCalls]
    /\ failures \in [MethodNames -> 0..MaxCalls]
    /\ \A p \in Procs :
          /\ frame[p].fn \in MethodNames \cup {"none"}
          /\ frame[p].at \in {"idle", "inflight", "errors", "duration", "size", "latency"}
          /\ frame[p].statusCode \in StatusCodes \cup {0}
          /\ frame[p].err \in Errs
    /\ CallsBegun <= MaxCalls

\* ------------------------------------------------------------------------
\* classifyError (errors.go, carried in metrics_test.go:174-232)
\* ------------------------------------------------------------------------

\* errors.As(err, &netErr): the first net.Error of the chain;
\* context.DeadlineExceeded is itself a net.Error whose Timeout() is true
AsNetError(err) ==
    IF err.net # "none" THEN err.net
    ELSE IF err.deadline THEN "timeout" ELSE "none"

\* metrics_test.go:188-193 (net.Error before the message) with the two
\* checks swapped: the message is tested before the net.Error.
classifyErrorMessageFirst(err) ==
    IF err.isNil THEN ""
    ELSE IF err.canceled THEN "canceled"
    ELSE IF err.deadline THEN "timeout"
    ELSE IF Contains(ToLower(err.msg), << "p", "a", "r", "s", "e" >>)
             \/ Contains(ToLower(err.msg), << "s", "y", "n", "t", "a", "x" >>)
         THEN "invalid_input"
    ELSE IF AsNetError(err) # "none"
         THEN IF AsNetError(err) = "timeout" THEN "network_timeout" ELSE "network"
    ELSE IF err.pg # "none"
         THEN IF err.pg = UniqueViolation THEN "db_unique_violation"
              ELSE IF err.pg = ForeignKeyViolation THEN "db_fk_violation"
              ELSE "db_error"
    ELSE IF err.grpc # "none"
         THEN IF err.grpc = "DeadlineExceeded" THEN "grpc_timeout"
              ELSE IF err.grpc = "NotFound" THEN "grpc_not_found"
              ELSE IF err.grpc = "InvalidArgument" THEN "grpc_invalid_arg"
              ELSE "grpc_" \o err.grpc
    ELSE "unknown"

\* classifyError whose fallback at the end of the cascade is the empty string.
classifyErrorEmptyFallback(err) ==
    IF err.isNil THEN ""
    ELSE IF err.canceled THEN "canceled"
    ELSE IF err.deadline THEN "timeout"
    ELSE IF AsNetError(err) # "none"
         THEN IF AsNetError(err) = "timeout" THEN "network_timeout" ELSE "network"
    ELSE IF Contains(ToLower(err.msg), << "p", "a", "r", "s", "e" >>)
             \/ Contains(ToLower(err.msg), << "s", "y", "n", "t", "a", "x" >>)
         THEN "invalid_input"
    ELSE IF err.pg # "none"
         THEN IF err.pg = UniqueViolation THEN "db_unique_violation"
              ELSE IF err.pg = ForeignKeyViolation THEN "db_fk_violation"
              ELSE "db_error"
    ELSE IF err.grpc # "none"
         THEN IF err.grpc = "DeadlineExceeded" THEN "grpc_timeout"
              ELSE IF err.grpc = "NotFound" THEN "grpc_not_found"
              ELSE IF err.grpc = "InvalidArgument" THEN "grpc_invalid_arg"
              ELSE "grpc_" \o err.grpc
    ELSE ""

\* metrics_test.go:174-232
classifyError(err) ==
    IF err.isNil THEN ""
    ELSE IF err.canceled THEN "canceled"
    ELSE IF err.deadline THEN "timeout"
    ELSE IF AsNetError(err) # "none"
         THEN IF AsNetError(err) = "timeout" THEN "network_timeout" ELSE "network"
    ELSE IF Contains(ToLower(err.msg), << "p", "a", "r", "s", "e" >>)
             \/ Contains(ToLower(err.msg), << "s", "y", "n", "t", "a", "x" >>)
         THEN "invalid_input"
    ELSE IF err.pg # "none"
         THEN IF err.pg = UniqueViolation THEN "db_unique_violation"
              ELSE IF err.pg = ForeignKeyViolation THEN "db_fk_violation"
              ELSE "db_error"
    ELSE IF err.grpc # "none"
         THEN IF err.grpc = "DeadlineExceeded" THEN "grpc_timeout"
              ELSE IF err.grpc = "NotFound" THEN "grpc_not_found"
              ELSE IF err.grpc = "InvalidArgument" THEN "grpc_invalid_arg"
              ELSE "grpc_" \o err.grpc
    ELSE "unknown"

\* a caller holds any of the errors explored and has not classified it yet
InitClassify ==
    /\ InitLifecycle /\ ~skipFlush
    /\ InitRecording
    /\ InitConstruction
    /\ InitConfiguring
    /\ InitRuntimeGauges
    /\ classifyArg \in NonNilErrors \cup {NilError}
    /\ errorType = "unset"

\* the call classifyError(err), as FinishDBCall (db.go:62) and
\* FinishExternalCall (external.go:61) make it for the error_type attribute
ClassifyError ==
    /\ errorType = "unset"
    /\ errorType' = classifyError(classifyArg)
    /\ UNCHANGED << offClassification, classifyArg >>

NextClassify == ClassifyError

SpecClassify == InitClassify /\ [][NextClassify]_vars

\* ------------------------------------------------------------------------
\* NewMetrics and the four group constructors (db.go:102-134,
\* README.md:199-238, db.go:21-36, external.go:22-37, unnamed/part_000:26-70)
\* ------------------------------------------------------------------------

MaxMeterErrors == 2

\* the meters NewMetrics is handed: each fails at up to MaxMeterErrors of the
\* creation steps (the fakeMeter of metrics_test.go fails at one name)
InitConstruct ==
    /\ InitLifecycle /\ ~skipFlush
    /\ InitRecording
    /\ InitClassification
    /\ InitConfiguring
    /\ InitRuntimeGauges
    /\ meterErrors \in {S \in SUBSET Range(AllSteps) : Cardinality(S) <= MaxMeterErrors}
    /\ attempted = << >>
    /\ created = << >>
    /\ sampled = {}
    /\ ctor = NoCtor
    /\ am = [g \in Range(GroupOrder) |-> NilGroup]
    /\ newMetrics = NoNewMetrics

\* a creation step that yields an instrument handle for the group's struct;
\* the registration returned by RegisterCallback is discarded (`_, err =`)
IsInstrument(s) ==
    s \notin {GroupSteps["HTTP"][6], GroupSteps["Runtime"][4]}

\* the instrument handles of group g
Instruments(g) == {s \in Range(GroupSteps[g]) : IsInstrument(s)}

\* a constructor is entered: nothing created yet
Enter(g) == [NoCtor EXCEPT !.group = g, !.at = 1]

\* db.go:102-108: NewMetrics(meter) declares am and calls NewHTTPMetrics
NewMetricsCall ==
    /\ newMetrics.at = 0
    /\ newMetrics' = [newMetrics EXCEPT !.at = 1]
    /\ ctor' = Enter(GroupOrder[1])
    /\ UNCHANGED << offConstruction, meterErrors, sampled, attempted, created, am >>

\* mutant of Construct: a failed creation is skipped and the constructor
\* goes on to its next step, returning the group it has
ConstructKeepsGoing(g) ==
    /\ ctor.group = g /\ ~ctor.returned
    /\ IF ctor.at <= Len(GroupSteps[g])
       THEN LET s == GroupSteps[g][ctor.at] IN
            /\ attempted' = Append(attempted, s)
            /\ IF s \in meterErrors
               THEN /\ ctor' = [ctor EXCEPT !.at = @ + 1]
                    /\ UNCHANGED created
               ELSE /\ created' = Append(created, s)
                    /\ ctor' = [ctor EXCEPT !.at = @ + 1,
                                            !.handles = IF IsInstrument(s) THEN @ \cup {s} ELSE @]
       ELSE /\ ctor' = [ctor EXCEPT !.returned = TRUE, !.value = Group(ctor.handles)]
            /\ UNCHANGED << attempted, created >>
    /\ UNCHANGED << offConstruction, meterErrors, sampled, am, newMetrics >>

\* one step of the constructor of group g: the next creation on the meter,
\* `if err != nil { return nil, err }` when it fails, the handle stored when
\* it succeeds, and `return &hm, nil` after the last one
Construct(g) ==
    /\ ctor.group = g /\ ~ctor.returned
    /\ IF ctor.at <= Len(GroupSteps[g])
       THEN LET s == GroupSteps[g][ctor.at] IN
            /\ attempted' = Append(attempted, s)
            /\ IF s \in meterErrors
               THEN /\ ctor' = [ctor EXCEPT !.returned = TRUE, !.value = NilGroup,
                                            !.err = s]
                    /\ UNCHANGED created
               ELSE /\ created' = Append(created, s)
                    /\ ctor' = [ctor EXCEPT !.at = @ + 1,
                                            !.handles = IF IsInstrument(s) THEN @ \cup {s} ELSE @]
       ELSE /\ ctor' = [ctor EXCEPT !.returned = TRUE, !.value = Group(ctor.handles)]
            /\ UNCHANGED << attempted, created >>
    /\ UNCHANGED << offConstruction, meterErrors, sampled, am, newMetrics >>

\* README.md:199-238
NewHTTPMetrics ==
    /\ newMetrics.at > 0 /\ GroupOrder[newMetrics.at] = "HTTP"
    /\ Construct("HTTP")

\* db.go:21-36
NewDBMetrics ==
    /\ newMetrics.at > 0 /\ GroupOrder[newMetrics.at] = "DB"
    /\ Construct("DB")

\* external.go:22-37
NewExternalMetrics ==
    /\ newMetrics.at > 0 /\ GroupOrder[newMetrics.at] = "External"
    /\ Construct("External")

\* unnamed/part_000:26-70
NewRuntimeMetrics ==
    /\ newMetrics.at > 0 /\ GroupOrder[newMetrics.at] = "Runtime"
    /\ Construct("Runtime")

\* mutant of NewMetricsAssign: a failed constructor makes NewMetrics take
\* everything it registered off the meter again
NewMetricsAssignRollsBack ==
    /\ newMetrics.at \in 1..Len(GroupOrder) /\ ~newMetrics.returned
    /\ ctor.group = GroupOrder[newMetrics.at] /\ ctor.returned
    /\ am' = [am EXCEPT ![ctor.group] = ctor.value]
    /\ IF ctor.err # "nil"
       THEN /\ newMetrics' = [newMetrics EXCEPT !.returned = TRUE, !.metrics = "nil",
                                                !.err = ctor.err]
            /\ ctor' = NoCtor
            /\ created' = << >>
       ELSE /\ UNCHANGED created
            /\ IF newMetrics.at < Len(GroupOrder)
               THEN /\ newMetrics' = [newMetrics EXCEPT !.at = @ + 1]
                    /\ ctor' = Enter(GroupOrder[newMetrics.at + 1])
               ELSE /\ newMetrics' = [newMetrics EXCEPT !.returned = TRUE, !.metrics = "am"]
                    /\ ctor' = NoCtor
    /\ UNCHANGED << offConstruction, meterErrors, sampled, attempted >>

\* mutant of NewMetricsAssign: the constructor's error is not looked at
NewMetricsAssignIgnoresErr ==
    /\ newMetrics.at \in 1..Len(GroupOrder) /\ ~newMetrics.returned
    /\ ctor.group = GroupOrder[newMetrics.at] /\ ctor.returned
    /\ am' = [am EXCEPT ![ctor.group] = ctor.value]
    /\ IF newMetrics.at < Len(GroupOrder)
       THEN /\ newMetrics' = [newMetrics EXCEPT !.at = @ + 1]
            /\ ctor' = Enter(GroupOrder[newMetrics.at + 1])
       ELSE /\ newMetrics' = [newMetrics EXCEPT !.returned = TRUE, !.metrics = "am"]
            /\ ctor' = NoCtor
    /\ UNCHANGED << offConstruction, meterErrors, sampled, attempted, created >>

\* db.go:108-133: `am.X, err = NewXMetrics(meter)`, then
\* `if err != nil { return nil, err }`, else the next constructor is called,
\* and after the fourth `return &am, nil`
NewMetricsAssign ==
    /\ newMetrics.at \in 1..Len(GroupOrder) /\ ~newMetrics.returned
    /\ ctor.group = GroupOrder[newMetrics.at] /\ ctor.returned
    /\ am' = [am EXCEPT ![ctor.group] = ctor.value]
    /\ IF ctor.err # "nil"
       THEN /\ newMetrics' = [newMetrics EXCEPT !.returned = TRUE, !.metrics = "nil",
                                                !.err = ctor.err]
            /\ ctor' = NoCtor
       ELSE IF newMetrics.at < Len(GroupOrder)
       THEN /\ newMetrics' = [newMetrics EXCEPT !.at = @ + 1]
            /\ ctor' = Enter(GroupOrder[newMetrics.at + 1])
       ELSE /\ newMetrics' = [newMetrics EXCEPT !.returned = TRUE, !.metrics = "am"]
            /\ ctor' = NoCtor
    /\ UNCHANGED << offConstruction, meterErrors, sampled, attempted, created >>

\* the callbacks registered on the meter
Callbacks == {s \in Range(created) : ~IsInstrument(s)}

\* a collection cycle of the meter's reader: every registered callback runs
\* (README.md:224-232, unnamed/part_000:45-66; there is no Unregister call)
Collect ==
    /\ sampled' = Callbacks
    /\ UNCHANGED << offConstruction, meterErrors, attempted, created, ctor, am, newMetrics >>

NextConstruct ==
    \/ NewMetricsCall
    \/ NewHTTPMetrics
    \/ NewDBMetrics
    \/ NewExternalMetrics
    \/ NewRuntimeMetrics
    \/ NewMetricsAssign
    \/ Collect

SpecConstruct == InitConstruct /\ [][NextConstruct]_vars

TypeOKConstruct ==
    /\ meterErrors \subseteq Range(AllSteps)
    /\ Range(attempted) \subseteq Range(AllSteps)
    /\ Range(created) \subseteq Range(attempted)
    /\ sampled \subseteq Range(created)
    /\ ctor.group \in Range(GroupOrder) \cup {"none"}
    /\ ctor.handles \subseteq Range(AllSteps)
    /\ ctor.err \in Range(AllSteps) \cup {"nil"}
    /\ \A g \in Range(GroupOrder) : am[g].handles \subseteq Instruments(g)
    /\ newMetrics.at \in 0..Len(GroupOrder)
    /\ newMetrics.metrics \in {"nil", "am"}
    /\ newMetrics.err \in Range(AllSteps) \cup {"nil"}

\* ------------------------------------------------------------------------
\* InitMetrics' validation over the space of configurations
\* (initialization.go:82-87, 249-277)
\* ------------------------------------------------------------------------

\* lists of histogram views: none, a well-formed one, every defect
\* validateConfig looks for (alone and behind a well-formed view), and
\* boundaries that are not ascending
ViewLists ==
    { << >>,
      << InstrumentViewConfig("http.server.requests.duration", <<1, 2, 3>>) >>,
      << InstrumentViewConfig("", <<1, 2, 3>>) >>,
      << InstrumentViewConfig("db.calls.duration", << >>) >>,
      << InstrumentViewConfig("db.calls.duration", <<1>>) >>,
      << InstrumentViewConfig("http.server.requests.duration", <<1, 2, 3>>),
         InstrumentViewConfig("db.calls.duration", <<1>>) >>,
      << InstrumentViewConfig("http.server.requests.duration", <<1, 2, 3>>),
         InstrumentViewConfig("", <<1, 2>>) >>,
      << InstrumentViewConfig("db.calls.duration", <<3, 1>>) >>,
      << InstrumentViewConfig("db.calls.duration", <<1, 1>>) >> }

\* the Config values a caller can write: every field empty or set
ConfigSpace ==
    { Config(endpoint, insecure, caFile, interval, service, env, views) :
        endpoint \in {"", "localhost:4317"}, insecure \in BOOLEAN,
        caFile \in {"", "ca.pem"}, interval \in {-1, 0, 20},
        service \in {"", "my-service"}, env \in {"", "prod"},
        views \in ViewLists }

\* README.md:61-66: the Config literal of the usage example; OTLPInsecure,
\* OTLPCAFile and CustomHistogramViews are left at their zero values
ReadmeConfig ==
    Config("localhost:4317", FALSE, "", 20, "my-service", "prod", << >>)

\* the goroutine that calls InitMetrics with the configurations of
\* ConfigSpace
Caller == 1

\* InitMetrics(cfg) up to the return of validateConfig, for any cfg
InitMetricsValidate ==
    \E c \in ConfigSpace : InitMetricsCallWith(Caller, c)

NextValidate == InitMetricsValidate

SpecValidate == Init /\ [][NextValidate]_vars

\* ------------------------------------------------------------------------
\* NewConfig and the options (initialization.go:53-79, 145-162)
\* ------------------------------------------------------------------------

MaxOpts == 3

\* An Option is a closure that writes one field of the Config. It is
\* modelled as the name of the function that made it and that function's
\* argument (the other fields of the record are not used).
Option(name, interval, views, insecure, caFile) ==
    [opt |-> name, interval |-> interval, views |-> views, insecure |-> insecure,
     caFile |-> caFile]

\* initialization.go:53-58
WithPushInterval(interval) == Option("WithPushInterval", interval, << >>, FALSE, "")

\* initialization.go:60-65
WithCustomHistogramViews(views) == Option("WithCustomHistogramViews", 0, views, FALSE, "")

\* initialization.go:67-72
WithOTLPInsecure(insecure) == Option("WithOTLPInsecure", 0, << >>, insecure, "")

\* initialization.go:74-79
WithOTLPCAFile(caFile) == Option("WithOTLPCAFile", 0, << >>, FALSE, caFile)

\* opt(c): the closure's assignment to its field of c
Apply(opt, c) ==
    IF opt.opt = "WithPushInterval" THEN [c EXCEPT !.PushInterval = opt.interval]
    ELSE IF opt.opt = "WithCustomHistogramViews" THEN [c EXCEPT !.CustomHistogramViews = opt.views]
    ELSE IF opt.opt = "WithOTLPInsecure" THEN [c EXCEPT !.OTLPInsecure = opt.insecure]
    ELSE [c EXCEPT !.OTLPCAFile = opt.caFile]

\* mutant of ApplyAll: the options are applied from the last to the first
RECURSIVE ApplyAllBackwards(_, _)
ApplyAllBackwards(opts, c) ==
    IF opts = << >> THEN c
    ELSE Apply(Head(opts), ApplyAllBackwards(Tail(opts), c))

\* initialization.go:157-159: `for _, opt := range opts { opt(c) }`
RECURSIVE ApplyAll(_, _)
ApplyAll(opts, c) ==
    IF opts = << >> THEN c ELSE ApplyAll(Tail(opts), Apply(Head(opts), c))

\* initialization.go:145-162: the defaults, then the options in call order
NewConfig(endpoint, serviceName, environment, opts) ==
    ApplyAll(opts, Config(endpoint, TRUE, "", 10, serviceName, environment, << >>))

\* the options a caller passes: each function with two different arguments
Options ==
    { WithPushInterval(5), WithPushInterval(30),
      WithCustomHistogramViews(<< InstrumentViewConfig("db.calls.duration", <<1, 2>>) >>),
      WithCustomHistogramViews(<< >>),
      WithOTLPInsecure(FALSE), WithOTLPInsecure(TRUE),
      WithOTLPCAFile("ca.pem"), WithOTLPCAFile("") }

\* the sequences of at most n elements of S
SeqsUpTo(S, n) == UNION {[1..k -> S] : k \in 0..n}

\* the calls of NewConfig: up to MaxOpts options in any order
InitNewConfig ==
    /\ InitLifecycle /\ ~skipFlush
    /\ InitRecording
    /\ InitClassification
    /\ InitConstruction
    /\ InitRuntimeGauges
    /\ ncArgs \in [endpoint : {"localhost:4317"}, serviceName : {"my-service"},
                    environment : {"prod"}, opts : SeqsUpTo(Options, MaxOpts)]
    /\ ncRet = [done |-> FALSE, cfg |-> NoCfg]

\* the call of NewConfig on the arguments
NewConfigCall ==
    /\ ~ncRet.done
    /\ ncRet' = [done |-> TRUE,
                 cfg |-> NewConfig(ncArgs.endpoint, ncArgs.serviceName,
                                   ncArgs.environment, ncArgs.opts)]
    /\ UNCHANGED << offConfiguring, ncArgs >>

NextNewConfig == NewConfigCall

SpecNewConfig == InitNewConfig /\ [][NextNewConfig]_vars

\* ------------------------------------------------------------------------
\* The callback of the runtime group (unnamed/part_000:46-64)
\* ------------------------------------------------------------------------

\* the instants, in milliseconds after construction, at which the clock is
\* looked at: around the first and the second full second
Instants == {0, 1, 500, 999, 1000, 1001, 1999, 2000, 2001}

\* what runtime.NumGoroutine() and mem.HeapAlloc can be while the callback
\* runs: at least the goroutine running it, and a heap in use
GoroutineCounts == {1, 2}
HeapSizes == {1, 4096}

\* time.Duration.Seconds() converted with int64(): the whole seconds,
\* the fraction dropped
MsPerSecond == 1000
WholeSeconds(ms) == ms \div MsPerSecond

\* time passes
Tick ==
    /\ \E t \in Instants : t > elapsedMs /\ elapsedMs' = t
    /\ UNCHANGED << offRuntimeGauges, collected, collectedAt >>

\* mutant of RuntimeCallback: a begun second counts as a whole one
RuntimeCallbackRoundsUp ==
    /\ \E n \in GoroutineCounts, h \in HeapSizes :
         collected' = << [gauge |-> "go.goroutines", value |-> n],
                         [gauge |-> "go.mem.heap_alloc", value |-> h],
                         [gauge |-> "process.uptime",
                          value |-> WholeSeconds(elapsedMs + MsPerSecond - 1)] >>
    /\ collectedAt' = elapsedMs
    /\ UNCHANGED << offRuntimeGauges, elapsedMs >>

\* unnamed/part_000:46-64: a collection cycle runs the callback, which
\* observes the goroutine count, the heap in use and
\* int64(time.Since(rm.startTime).Seconds())
RuntimeCallback ==
    /\ \E n \in GoroutineCounts, h \in HeapSizes :
         collected' = << [gauge |-> "go.goroutines", value |-> n],
                         [gauge |-> "go.mem.heap_alloc", value |-> h],
                         [gauge |-> "process.uptime", value |-> WholeSeconds(elapsedMs)] >>
    /\ collectedAt' = elapsedMs
    /\ UNCHANGED << offRuntimeGauges, elapsedMs >>

NextRuntime ==
    \/ Tick
    \/ RuntimeCallback

SpecRuntime == Init /\ [][NextRuntime]_vars

\* ------------------------------------------------------------------------
\* Properties
\* ------------------------------------------------------------------------

\* goroutine p's latest call was an InitMetrics with a valid configuration
\* and it has returned
InitValidReturned(p) ==
    op[p] = "init" /\ pc[p] = "idle" /\ ret[p] # "config_error"

\* C1: however many callers invoke InitMetrics with a valid configuration,
\* the construction body is executed exactly once: never twice, and once as
\* soon as one such call has returned.
C1_ConstructionExactlyOnce ==
    /\ initBodyRuns <= 1
    /\ (\E p \in Procs : InitValidReturned(p)) => initBodyRuns = 1

\* every goroutine has returned from an InitMetrics call with a valid
\* configuration and the body ran once
C1_Witness ==
    /\ \A p \in Procs : InitValidReturned(p)
    /\ initBodyRuns = 1

\* C2: all InitMetrics callers with a valid configuration observe the outcome
\* of the first attempt: the construction error if it failed, nil if it
\* succeeded.
C2_AllCallersSameOutcome ==
    \A p \in Procs :
        InitValidReturned(p) =>
            /\ InitBodyFailed => ret[p] \in {"exporter_error", "resource_error"}
            /\ initSets >= 1 => ret[p] = "nil"

\* C3: initialized is true if and only if the provider is non-nil and the
\* shutdown hook is set.
C3_InitializedIffProviderAndHook ==
    initialized <=> (meterProvider # "nil" /\ shutdownFunc # "nil")

\* C3 (amended): initialized implies that the provider is non-nil and the
\* hook is set; with both set, initialized is false only while the init body
\* has not yet raised the flag or after ShutdownMetrics has cleared it.
C3_InitializedIffRaisedAndNotCleared ==
    initialized <=>
        (meterProvider # "nil" /\ shutdownFunc # "nil" /\ initSets >= 1 /\ initClears = 0)

\* the flag is up with provider and hook in place, and a ShutdownMetrics body
\* is about to clear it while both stay set
C3_Witness ==
    /\ initialized /\ meterProvider = "mp" /\ shutdownFunc = "set"
    /\ \E p \in Procs : pc[p] = "sd_mark"

\* C4: once InitMetrics has succeeded and a ShutdownMetrics call made after
\* that, with the skip-flush switch never on, has returned, the flush hook
\* has been invoked exactly once, whatever ShutdownMetrics calls were made
\* before.
C4_FlushExactlyOnce ==
    \A p \in Procs :
        (op[p] = "shutdown" /\ pc[p] = "idle" /\ sdQual[p] /\ ~everSkip) => flushCalls = 1

\* a step of goroutine p inside a ShutdownMetrics call
ShutdownStep(p) ==
    /\ op'[p] = "shutdown"
    /\ pc'[p] # pc[p]

\* C5: after a ShutdownMetrics call has returned nil, another ShutdownMetrics
\* call returns nil as soon as it reaches the one-shot guard, invokes no
\* flush and leaves the lifecycle state unchanged.
C5_SecondShutdownNoop ==
    [][\A p \in Procs :
         (shutdownSucceeded /\ ShutdownStep(p)) =>
            /\ UNCHANGED << globals, flushCalls, initClears >>
            /\ pc[p] = "sd_do" => (pc'[p] = "idle" /\ ret'[p] = "nil")]_vars

\* the system was initialized and shut down, and every goroutine's latest
\* call is a ShutdownMetrics that returned nil
C5_Witness ==
    /\ initClears = 1
    /\ shutdownSucceeded
    /\ \A p \in Procs : op[p] = "shutdown" /\ pc[p] = "idle" /\ ret[p] = "nil"

\* goroutine p calls InitMetrics in this step with a configuration that
\* validateConfig rejects
RejectedInitCall(p) ==
    /\ pc[p] = "idle"
    /\ op'[p] = "init"
    /\ << op[p], cfg[p], ret[p] >> # << op'[p], cfg'[p], ret'[p] >>
    /\ cfg'[p] \in {CfgNoEndpoint, CfgZeroInterval, CfgOneBucket}

\* C6: an InitMetrics call with a configuration that fails validation returns
\* the configuration error whether or not initOnce has fired, and changes
\* none of initialized, provider, shutdown hook, default provider and the two
\* one-shot guards.
C6_InvalidConfigRejectedWithoutEffect ==
    [][\A p \in Procs :
         RejectedInitCall(p) =>
            /\ pc'[p] = "idle"
            /\ ret'[p] = "config_error"
            /\ UNCHANGED << globals, counters >>]_vars

\* an invalid configuration was rejected after initOnce had fired
C6_Witness ==
    /\ initOnce = "done"
    /\ initialized
    /\ \E p \in Procs : op[p] = "init" /\ pc[p] = "idle" /\ ret[p] = "config_error"

\* C7: GetMeter returns a meter of the provider built by InitMetrics exactly
\* when initialized is true, and a meter of the no-op default provider in
\* every state where it is false.
C7_BuiltMeterIffInitialized ==
    [][\A p \in Procs :
         (pc[p] = "gm_read" /\ pc'[p] = "idle") =>
            (ret'[p] = "meter_of_built" <=> initialized)]_vars

\* C8: initialized goes from false to true at most once and from true to
\* false at most once; once ShutdownMetrics has cleared it, it stays false, no
\* construction runs again and InitMetrics calls with a valid configuration
\* return nil.
C8_InitializedRisesAndFallsOnce ==
    /\ initSets <= 1
    /\ initClears <= 1
    /\ initClears >= 1 =>
          /\ ~initialized
          /\ initSets = 1
          /\ initBodyRuns = 1
          /\ \A p \in Procs : InitValidReturned(p) => ret[p] = "nil"

\* after the clearing, every goroutine (the one that ran the shutdown body
\* included) has made an InitMetrics call with a valid configuration that
\* returned nil
C8_Witness ==
    /\ initClears = 1
    /\ shutdownOnce = "done"
    /\ \A p \in Procs : InitValidReturned(p) /\ ret[p] = "nil"

\* C9: a failed InitMetrics leaves the system inert.  A rejected configuration
\* changes none of initialized, provider, hook and default provider; after a
\* construction failure initialized is false, provider and hook are unset,
\* the default provider is not replaced and GetMeter draws its meter from
\* the default provider.
C9_FailedInitLeavesInert ==
    /\ [](InitBodyFailed =>
            /\ ~initialized
            /\ meterProvider = "nil"
            /\ shutdownFunc = "nil"
            /\ globalProvider = "default"
            /\ MeterSource = "meter_of_default")
    /\ [][\A p \in Procs :
            RejectedInitCall(p) =>
                UNCHANGED << initialized, meterProvider, shutdownFunc, globalProvider >>]_vars

\* construction has failed, one goroutine got the construction error and
\* another one a meter afterwards
C9_Witness ==
    /\ InitBodyFailed
    /\ \E p \in Procs : op[p] = "init" /\ pc[p] = "idle"
                        /\ ret[p] \in {"exporter_error", "resource_error"}
    /\ \E p \in Procs : op[p] = "getmeter" /\ pc[p] = "idle" /\ ret[p] = "meter_of_default"

\* C10: once a first InitMetrics call with a valid configuration has failed
\* during construction, the one-shot guard stays fired: no later call runs
\* the construction and initialized stays false.
C10_NoRetryAfterConstructionFailure ==
    [][InitBodyFailed =>
          /\ initBodyRuns' = initBodyRuns
          /\ initOnce' # "pending"
          /\ ~initialized']_vars

\* construction failed and another InitMetrics call with a valid
\* configuration went through the fired guard without constructing
C10_Witness ==
    /\ InitBodyFailed
    /\ initOnce = "done"
    /\ initBodyRuns = 1
    /\ \E p \in Procs : InitValidReturned(p) /\ ret[p] = "nil"

\* goroutine p's latest call was a ShutdownMetrics and it has returned
ShutdownReturned(p) ==
    op[p] = "shutdown" /\ pc[p] = "idle"

\* C11: when the shutdown function fails in the call that executes the
\* shutdown body, the body still goes on to clear the flag, and that call
\* returns the error with initialized false.
C11_FlushErrorReturnedAfterClear ==
    [][\A p \in Procs :
          /\ (pc[p] = "sd_flush" /\ localErr'[p] = "flush_error") => pc'[p] = "sd_lock"
          /\ (pc[p] = "sd_return" /\ localErr[p] = "flush_error" /\ pc'[p] = "idle")
                => (ret'[p] = "flush_error" /\ ~initialized' /\ initClears' = 1)]_vars

C11_Witness ==
    \E p \in Procs :
        /\ ShutdownReturned(p)
        /\ ret[p] = "flush_error"
        /\ flushCalls = 1
        /\ ~initialized
        /\ initClears = 1

\* goroutine p's ShutdownMetrics call returns in this step
ShutdownReturns(p) ==
    op[p] = "shutdown" /\ pc[p] # "idle" /\ pc'[p] = "idle"

\* C12: a ShutdownMetrics call that began with the system initialized and
\* the skip switch on leaves initialized false when it returns.
C12_SkipFlushStillClears ==
    [][\A p \in Procs :
          (ShutdownReturns(p) /\ sdAt[p].init /\ sdAt[p].skip) => ~initialized']_vars

\* C13: a ShutdownMetrics call that returns before any InitMetrics body has
\* started returns nil, touches no global, and leaves the shutdown Once able
\* to run for a later call.
C13_ShutdownBeforeInitChangesNothing ==
    \A p \in Procs :
        (ShutdownReturned(p) /\ initBodyRuns = 0)
            => /\ ret[p] = "nil"
               /\ flushCalls = 0
               /\ ~initialized
               /\ meterProvider = "nil"
               /\ shutdownFunc = "nil"
               /\ globalProvider = "default"
               /\ OnceMayRun(shutdownOnce)

\* C14: once a ShutdownMetrics call has returned the flush error, every
\* other ShutdownMetrics call that began on the initialized system returns
\* the flush error too.
C14_AllShutdownCallersSeeFlushError ==
    [][\A p \in Procs :
          (/\ ShutdownReturns(p) /\ sdAt[p].init
           /\ \E q \in Procs \ {p} : ShutdownReturned(q) /\ ret[q] = "flush_error")
              => ret'[p] = "flush_error"]_vars

\* goroutines inside method fn at one of the statements ats
InMethod(fn, ats) ==
    {p \in Procs : frame[p].fn = fn /\ frame[p].at \in ats}

\* RecordRequestStart increments of the tally that have completed
Incs == calls["RecordRequestStart"]

\* RecordRequestEnd decrements of the tally that have completed: the
\* decrement is the first statement of the method
Decs ==
    calls["RecordRequestEnd"]
        + Cardinality(InMethod("RecordRequestEnd", {"errors", "duration", "size"}))

\* C15: the in-flight tally, and so whatever the callback samples, is never
\* negative, whatever RecordRequestStart and RecordRequestEnd calls are made.
C15_InFlightNeverNegative ==
    inFlight >= 0 /\ gauge >= 0

\* C16: in every interleaving the tally equals the completed increments
\* minus the completed decrements, the callback reports exactly that number,
\* and the number is 0 when the two counts agree.
C16_GaugeIsStartsMinusEnds ==
    [][/\ inFlight' = Incs' - Decs'
       /\ ObserveInFlight => gauge' = Incs - Decs
       /\ (ObserveInFlight /\ Incs = Decs) => gauge' = 0]_vars

C16_Witness ==
    /\ calls["RecordRequestStart"] = 2
    /\ InMethod("RecordRequestEnd", {"errors"}) # {}
    /\ inFlight = 1
    /\ gauge = 1

\* the counts of C17 in a state: what each HTTP instrument holds against the
\* calls made, a call in progress counted for the statements it is past
HTTPCounts ==
    /\ meter["requests.total"]
          = calls["RecordRequestStart"]
              + Cardinality(InMethod("RecordRequestStart", {"inflight"}))
    /\ meter["requests.errors"]
          = failures["RecordRequestEnd"]
              + Cardinality({p \in InMethod("RecordRequestEnd", {"duration", "size"}) :
                                frame[p].statusCode >= 400})
    /\ meter["requests.duration"]
          = calls["RecordRequestEnd"] + Cardinality(InMethod("RecordRequestEnd", {"size"}))
    /\ meter["response.size"] = calls["RecordRequestEnd"]

\* C17: requests.total counts the RecordRequestStart calls, requests.errors
\* the RecordRequestEnd calls with statusCode >= 400 (a call adds 1 from 400
\* up and nothing up to 399), requests.duration and response.size one sample
\* per RecordRequestEnd call.
C17_HTTPCountsMatchCalls ==
    [][/\ HTTPCounts'
       /\ \A p \in Procs :
             (frame[p].at = "errors" /\ frame'[p].at = "duration")
                => meter'["requests.errors"] - meter["requests.errors"]
                     = IF frame[p].statusCode <= 399 THEN 0 ELSE 1]_vars

C17_Witness ==
    /\ calls["RecordRequestEnd"] = 1
    /\ failures["RecordRequestEnd"] = 0
    /\ \E p \in Procs : frame[p] = Frame("RecordRequestEnd", "duration", 400, "nil")
    /\ meter["requests.errors"] = 1
    /\ meter["requests.duration"] = 1
    /\ meter["response.size"] = 1

\* the counts of C18 in a state
DBCounts ==
    /\ meter["db.calls.total"] = calls["RecordDBCall"]
    /\ meter["db.calls.errors"]
          = failures["FinishDBCall"]
              + Cardinality({p \in InMethod("FinishDBCall", {"duration"}) : frame[p].err # "nil"})
    /\ meter["db.calls.duration"] = calls["FinishDBCall"]

\* C18: db.calls.total counts the RecordDBCall calls, db.calls.errors the
\* FinishDBCall calls with a non-nil err, db.calls.duration one sample per
\* FinishDBCall call, with or without a RecordDBCall before it; a step of
\* FinishDBCall leaves the total alone and a RecordDBCall leaves errors and
\* duration alone.
C18_DBCountsMatchCalls ==
    [][/\ DBCounts'
       /\ calls'["RecordDBCall"] = calls["RecordDBCall"]
             => meter'["db.calls.total"] = meter["db.calls.total"]
       /\ calls'["RecordDBCall"] # calls["RecordDBCall"]
             => /\ meter'["db.calls.errors"] = meter["db.calls.errors"]
                /\ meter'["db.calls.duration"] = meter["db.calls.duration"]]_vars

C18_Witness ==
    /\ calls["RecordDBCall"] = 1
    /\ calls["FinishDBCall"] = 3
    /\ failures["FinishDBCall"] = 1
    /\ meter["db.calls.total"] = 1
    /\ meter["db.calls.errors"] = 1
    /\ meter["db.calls.duration"] = 3

\* C19: external.calls.total counts the RecordExternalCall calls,
\* external.calls.errors the FinishExternalCall calls with a non-nil err,
\* external.calls.duration one sample per FinishExternalCall call.
C19_ExternalCountsMatchCalls ==
    /\ meter["external.calls.total"] = calls["RecordExternalCall"]
    /\ meter["external.calls.errors"]
          = failures["FinishExternalCall"]
              + Cardinality({p \in InMethod("FinishExternalCall", {"latency"}) :
                                frame[p].err # "nil"})
    /\ meter["external.calls.duration"] = calls["FinishExternalCall"]

C19_Witness ==
    /\ calls["RecordExternalCall"] = 2
    /\ calls["FinishExternalCall"] = 2
    /\ failures["FinishExternalCall"] = 1
    /\ meter["external.calls.total"] = 2
    /\ meter["external.calls.errors"] = 1
    /\ meter["external.calls.duration"] = 2

\* the predicates of the cascade on err, in the order of the checks
CheckMatches(err) ==
    << err.isNil,
       err.canceled,
       err.deadline,
       err.net # "none",
       \E w \in {<< "p", "a", "r", "s", "e" >>, << "s", "y", "n", "t", "a", "x" >>} :
           Contains(ToLower(err.msg), w),
       err.pg # "none",
       err.grpc # "none",
       TRUE >>

\* the category each check gives err when it is the one that decides
CheckCategory(err) ==
    << "",
       "canceled",
       "timeout",
       IF err.net = "timeout" THEN "network_timeout" ELSE "network",
       "invalid_input",
       CASE err.pg = "23505" -> "db_unique_violation"
         [] err.pg = "23503" -> "db_fk_violation"
         [] OTHER -> "db_error",
       CASE err.grpc = "DeadlineExceeded" -> "grpc_timeout"
         [] err.grpc = "NotFound" -> "grpc_not_found"
         [] err.grpc = "InvalidArgument" -> "grpc_invalid_arg"
         [] OTHER -> "grpc_" \o err.grpc,
       "unknown" >>

\* C20: whatever combination of the predicates an error satisfies, the
\* result of classifyError is the category of the first check that matches,
\* in the order nil, canceled, timeout, network, invalid_input, db, grpc,
\* unknown; a later matching check never decides.
C20_FirstMatchingCheckWins ==
    errorType # "unset" =>
        LET m == CheckMatches(classifyArg)
            first == CHOOSE i \in 1..8 : m[i] /\ \A j \in 1..(i - 1) : ~m[j]
        IN errorType = CheckCategory(classifyArg)[first]

C20_Witness ==
    /\ errorType = "network_timeout"
    /\ ~classifyArg.canceled /\ ~classifyArg.deadline
    /\ classifyArg.net = "timeout"
    /\ classifyArg.msg = << "p", "a", "r", "s", "e" >>
    /\ classifyArg.pg = UniqueViolation
    /\ classifyArg.grpc = "NotFound"

\* C21: classifyError answers for every error, and answers "" exactly for
\* the nil error: the error_type of a non-nil err is never empty.
C21_EmptyCategoryOnlyForNil ==
    errorType # "unset" => (errorType = "" <=> classifyArg.isNil)

C21_Witness ==
    /\ errorType = "unknown"
    /\ ~classifyArg.isNil
    /\ classifyArg.msg = << >>
    /\ classifyArg.pg = "none" /\ classifyArg.grpc = "none"

\* seq is an initial part of whole
IsPrefix(seq, whole) ==
    /\ Len(seq) <= Len(whole)
    /\ \A i \in 1..Len(seq) : seq[i] = whole[i]

\* the meter fails at some creation step of group g
GroupFails(g) == Range(GroupSteps[g]) \cap meterErrors # {}

\* the first step of group g at which the meter fails
FirstError(g) ==
    LET i == CHOOSE i \in 1..Len(GroupSteps[g]) :
                 /\ GroupSteps[g][i] \in meterErrors
                 /\ \A j \in 1..(i - 1) : GroupSteps[g][j] \notin meterErrors
    IN GroupSteps[g][i]

\* C22: NewMetrics builds the groups in the order HTTP, DB, External,
\* Runtime. When a constructor fails, no later constructor is called and
\* NewMetrics returns a nil registry with exactly that constructor's error;
\* it returns the registry, all four groups non-nil, only when none fails.
C22_NewMetricsStopsAtFirstFailure ==
    /\ IsPrefix(attempted, AllSteps)
    /\ newMetrics.returned =>
          IF \E i \in 1..Len(GroupOrder) : GroupFails(GroupOrder[i])
          THEN LET i == CHOOSE i \in 1..Len(GroupOrder) :
                            /\ GroupFails(GroupOrder[i])
                            /\ \A j \in 1..(i - 1) : ~GroupFails(GroupOrder[j])
               IN /\ newMetrics.metrics = "nil"
                  /\ newMetrics.err = FirstError(GroupOrder[i])
                  /\ \A j \in (i + 1)..Len(GroupOrder) :
                        Range(GroupSteps[GroupOrder[j]]) \cap Range(attempted) = {}
          ELSE /\ newMetrics.metrics = "am"
               /\ newMetrics.err = "nil"
               /\ \A g \in Range(GroupOrder) : ~am[g].isNil

\* NewDBMetrics failed after NewHTTPMetrics succeeded, and NewMetrics returned
C22_Witness ==
    /\ newMetrics.returned
    /\ newMetrics.err = "db.calls.errors"
    /\ ~am["HTTP"].isNil /\ am["DB"].isNil
    /\ "external.calls.total" \in meterErrors

\* C23: a group constructor is all-or-nothing. After a creation step of the
\* group has failed none of its later steps is attempted and the constructor
\* returns a nil group with that error; a group is non-nil only with every
\* instrument handle set and its callback registered.
C23_ConstructorAllOrNothing ==
    /\ \A g \in Range(GroupOrder) : \A i \in 1..Len(GroupSteps[g]) :
          GroupSteps[g][i] \in meterErrors \cap Range(attempted) =>
             \A j \in (i + 1)..Len(GroupSteps[g]) :
                GroupSteps[g][j] \notin Range(attempted)
    /\ ctor.returned =>
          IF GroupFails(ctor.group)
          THEN ctor.value.isNil /\ ctor.err = FirstError(ctor.group)
          ELSE /\ ctor.err = "nil"
               /\ ctor.value = Group(Instruments(ctor.group))
               /\ Range(GroupSteps[ctor.group]) \subseteq Range(created)
    /\ \A g \in Range(GroupOrder) :
          ~am[g].isNil => am[g].handles = Instruments(g)

\* NewHTTPMetrics created its five instruments and failed to register the
\* callback
C23_Witness ==
    /\ ctor.returned /\ ctor.group = "HTTP"
    /\ ctor.value.isNil
    /\ ctor.err = GroupSteps["HTTP"][6]
    /\ Len(created) = 5

\* one of the defects the configuration contract lists
Rejectable(c) ==
    \/ c.OTLPEndpoint = ""
    \/ c.ServiceName = ""
    \/ c.Environment = ""
    \/ c.PushInterval <= 0
    \/ ~c.OTLPInsecure /\ c.OTLPCAFile = ""
    \/ \E i \in 1..Len(c.CustomHistogramViews) :
          \/ c.CustomHistogramViews[i].InstrumentName = ""
          \/ Len(c.CustomHistogramViews[i].Buckets) < 2

\* the lifecycle globals are as at process start
Uninitialized ==
    /\ meterProvider = "nil" /\ shutdownFunc = "nil"
    /\ initOnce = "pending" /\ shutdownOnce = "pending"
    /\ ~initialized /\ globalProvider = "default"

\* C24: an InitMetrics call whose configuration has any one of the listed
\* defects has returned the configuration error, and the global state is
\* still uninitialized.
C24_DefectiveConfigRejected ==
    (op[Caller] = "init" /\ Rejectable(cfg[Caller])) =>
        /\ pc[Caller] = "idle" /\ ret[Caller] = "config_error"
        /\ Uninitialized

\* a configuration whose only defect is the one-boundary bucket list of its
\* second view was rejected
C24_Witness ==
    /\ op[Caller] = "init" /\ ret[Caller] = "config_error"
    /\ cfg[Caller] =
         Config("localhost:4317", TRUE, "", 20, "my-service", "prod",
                << InstrumentViewConfig("http.server.requests.duration", <<1, 2, 3>>),
                   InstrumentViewConfig("db.calls.duration", <<1>>) >>)

\* C25 (as stated): InitMetrics called with the Config literal of the README
\* usage example passes validation and goes on to initialise.
C25_ReadmeConfigAccepted ==
    (op[Caller] = "init" /\ cfg[Caller] = ReadmeConfig) =>
        ret[Caller] # "config_error" /\ pc[Caller] = "init_do"

\* the boundaries of a view are strictly ascending
Ascending(buckets) ==
    \A i \in 1..(Len(buckets) - 1) : buckets[i] < buckets[i + 1]

\* C26 (as stated): InitMetrics rejects with a configuration error every
\* configuration that has a view whose bucket boundaries are not ascending.
C26_NonAscendingBucketsRejected ==
    (/\ op[Caller] = "init"
     /\ \E i \in 1..Len(cfg[Caller].CustomHistogramViews) :
           ~Ascending(cfg[Caller].CustomHistogramViews[i].Buckets))
        => ret[Caller] = "config_error"

\* the positions in opts of the options made by the function name
Touching(opts, name) == {i \in 1..Len(opts) : opts[i].opt = name}

\* the greatest element of a non-empty set of numbers
Max(S) == CHOOSE i \in S : \A j \in S : j <= i

\* the last option of opts made by the function name
LastOpt(opts, name) == opts[Max(Touching(opts, name))]

\* C27: NewConfig returns the three required fields as passed and, for each
\* other field, the value of the last option that sets it, or the default
\* (PushInterval 10 s, OTLPInsecure true, OTLPCAFile empty, no views) when
\* no option sets it.
C27_LastOptionWins ==
    ncRet.done =>
        LET opts == ncArgs.opts
            c == ncRet.cfg
        IN /\ c.OTLPEndpoint = ncArgs.endpoint
           /\ c.ServiceName = ncArgs.serviceName
           /\ c.Environment = ncArgs.environment
           /\ c.PushInterval =
                 IF Touching(opts, "WithPushInterval") = {} THEN 10
                 ELSE LastOpt(opts, "WithPushInterval").interval
           /\ c.OTLPInsecure =
                 IF Touching(opts, "WithOTLPInsecure") = {} THEN TRUE
                 ELSE LastOpt(opts, "WithOTLPInsecure").insecure
           /\ c.OTLPCAFile =
                 IF Touching(opts, "WithOTLPCAFile") = {} THEN ""
                 ELSE LastOpt(opts, "WithOTLPCAFile").caFile
           /\ c.CustomHistogramViews =
                 IF Touching(opts, "WithCustomHistogramViews") = {} THEN << >>
                 ELSE LastOpt(opts, "WithCustomHistogramViews").views

\* two WithPushInterval options around a WithOTLPInsecure: the later interval
\* is kept, the CA file and the views keep their defaults
C27_Witness ==
    /\ ncRet.done
    /\ ncArgs.opts = << WithPushInterval(30), WithOTLPInsecure(FALSE), WithPushInterval(5) >>
    /\ ncRet.cfg = Config("localhost:4317", FALSE, "", 5, "my-service", "prod", << >>)

\* the latest cycle observed each of the three runtime gauges once
ThreeGaugesOnce ==
    /\ Len(collected) = 3
    /\ {collected[i].gauge : i \in 1..3} =
         {"go.goroutines", "go.mem.heap_alloc", "process.uptime"}

\* the value the latest cycle observed for the gauge called name
Observed(name) ==
    (CHOOSE o \in Range(collected) : o.gauge = name).value

\* C28 (as stated): every collection cycle, at whatever time after
\* construction, reports the three gauges once, with a process.uptime that
\* is strictly greater than 0 and is the whole number of seconds elapsed.
C28_UptimePositiveEveryCycle ==
    collectedAt >= 0 =>
        /\ ThreeGaugesOnce
        /\ Observed("process.uptime") > 0
        /\ Observed("process.uptime") = WholeSeconds(collectedAt)

\* C28 (amended): every collection cycle reports the three gauges once,
\* with at least one goroutine, a positive heap size and a process.uptime
\* that is the whole number of seconds elapsed since construction: 0 during
\* the first second, strictly greater than 0 from one second on.
C28_UptimeIsWholeSeconds ==
    collectedAt >= 0 =>
        /\ ThreeGaugesOnce
        /\ Observed("go.goroutines") >= 1
        /\ Observed("go.mem.heap_alloc") > 0
        /\ Observed("process.uptime") * MsPerSecond <= collectedAt
        /\ collectedAt < (Observed("process.uptime") + 1) * MsPerSecond
        /\ Observed("process.uptime") > 0 <=> collectedAt >= MsPerSecond

\* a cycle 999 ms after construction reported an uptime of 0
C28_Witness ==
    /\ collectedAt = 999
    /\ ThreeGaugesOnce
    /\ Observed("process.uptime") = 0

\* C29: under fair scheduling no lifecycle operation blocks for ever: every
\* InitMetrics, ShutdownMetrics and GetMeter call that has begun returns.
C29_EveryCallReturns ==
    \A p \in Procs : (pc[p] # "idle") ~> (pc[p] = "idle")

\* an InitMetrics caller waits for mu.Lock while another goroutine holds the
\* read lock
C29_Witness ==
    \E p \in Procs : pc[p] = "init_lock" /\ muReaders # {} /\ p \notin muReaders

\* a returned InitMetrics call of p with a valid configuration, whose
\* construction did not fail, while no ShutdownMetrics has cleared the flag
InitDone(p) ==
    InitValidReturned(p) /\ ~InitBodyFailed /\ initClears = 0

\* C30: no InitMetrics call with a valid configuration returns while the
\* construction is still running. Once such a call has returned after a
\* successful construction, and until a ShutdownMetrics clears the flag,
\* initialized is true, the provider is the constructed one, and every
\* GetMeter that returns draws its meter from the constructed provider.
C30_InitReturnsAfterConstruction ==
    /\ [](\A p \in Procs :
            InitDone(p) =>
                /\ initOnce = "done"
                /\ initialized
                /\ meterProvider = "mp"
                /\ MeterSource = "meter_of_built")
    /\ [][\A p, q \in Procs :
            (InitDone(p) /\ initClears' = 0 /\ pc[q] = "gm_read" /\ pc'[q] = "idle")
                => ret'[q] = "meter_of_built"]_vars

\* two goroutines called InitMetrics with a valid configuration, one of them
\* ran the construction, both have returned and the system is initialized
C30_Witness ==
    /\ \A p \in {1, 2} : InitDone(p) /\ ret[p] = "nil"
    /\ initBodyRuns = 1
    /\ initialized

\* C31: whenever initialized is true the provider is non-nil and the
\* shutdown hook is set, and neither is ever cleared once written. So a
\* GetMeter that reads the flag as true has a provider to draw from, and a
\* ShutdownMetrics body that found the system initialized has a hook to call.
C31_InitializedHasProviderAndHook ==
    /\ [](initialized => meterProvider # "nil" /\ shutdownFunc # "nil")
    /\ [](\A p \in Procs : pc[p] = "sd_flush" => shutdownFunc # "nil")
    /\ [][/\ meterProvider # "nil" => meterProvider' = meterProvider
          /\ shutdownFunc # "nil" => shutdownFunc' = shutdownFunc]_vars

\* with the flag up, a GetMeter holds the read lock and is about to take the
\* active-provider branch while a ShutdownMetrics body that found the system
\* initialized is about to call the hook
C31_Witness ==
    /\ initialized
    /\ \E p, q \in Procs : pc[p] = "gm_read" /\ pc[q] = "sd_flush"

\* C32: RecordRequestStart adds to requests.total before it raises the
\* in-flight tally, so in every interleaving the tally is at most
\* requests.total minus the completed decrements, and so is every sample the
\* callback takes: a request is seen in the total before it is seen in
\* flight, never the other way round.
C32_InFlightAtMostTotal ==
    /\ [](inFlight <= meter["requests.total"] - Decs)
    /\ [][ObserveInFlight => gauge' <= meter["requests.total"] - Decs]_vars

\* two requests are in the total, one of them is not yet in flight, and the
\* callback has sampled that state
C32_Witness ==
    /\ meter["requests.total"] = 2
    /\ InMethod("RecordRequestStart", {"inflight"}) # {}
    /\ Decs = 0
    /\ inFlight = 1
    /\ gauge = 1

\* the creation steps asked of the meter that it carried out, in order
Succeeded == SelectSeq(attempted, LAMBDA s : s \notin meterErrors)

\* C33: nothing a constructor has put on the meter is taken off again. The
\* instruments and callbacks created before a failure stay registered after
\* the failing constructor and NewMetrics have returned nil, and a collection
\* cycle after a failed NewMetrics still runs the callbacks of the groups
\* that had been constructed.
C33_NoRollbackOnFailure ==
    /\ [](created = Succeeded)
    /\ [][IsPrefix(created, created')]_vars
    /\ [][(newMetrics.returned /\ newMetrics.metrics = "nil" /\ Collect) =>
            sampled' = {s \in Range(Succeeded) : ~IsInstrument(s)}]_vars

\* NewMetrics returned nil because process.uptime could not be created: the
\* thirteen instruments and the HTTP callback made before are on the meter,
\* and a collection cycle has run that callback
C33_Witness ==
    /\ newMetrics.returned /\ newMetrics.metrics = "nil"
    /\ newMetrics.err = "process.uptime"
    /\ Len(created) = 14
    /\ sampled = {GroupSteps["HTTP"][6]}

====
